---- MODULE Spec2Model ----
(***************************************************************************)
(* Model of the observability core of agent-workspace:                     *)
(*   src/execution/observability.py  (Event, MetricsCollector,             *)
(*                                    EventLogger, ObservabilityHub,       *)
(*                                    observe_directive, observe_script)   *)
(*   src/execution/slack_notifier.py (SlackNotifier)                       *)
(* Every hub method runs to completion on the calling thread, so one       *)
(* action is one call of one method (or one step of a `with` block).       *)
(* Text that the code slices or measures is a sequence of one-character    *)
(* strings; text that it only passes on is a string or a tuple of parts.   *)
(***************************************************************************)
EXTENDS Integers, Sequences, FiniteSets, TLC

\* ------------------------------------------------------------------------
\* Bounds of the model
\* ------------------------------------------------------------------------
MaxOps == 3

MaxTicks == 2

MaxSubs == 2

MaxIOFailures == 1

MaxMetricOps == 3

MaxLogOps == 2

MaxTimedOps == 2

MaxThreadOps == 2

\* ------------------------------------------------------------------------
\* Program constants
\* ------------------------------------------------------------------------
FieldTruncLen == 100

SecondsPerMinute == 60

SecondsPerHour == 3600

SecondsPerDay == 86400

\* ------------------------------------------------------------------------
\* Input domains
\* ------------------------------------------------------------------------
Names == {"a", "total"}

TickSteps == {1, 59, 3541}

EventTypes ==
  { "directive_started", "directive_completed", "directive_failed",
    "directive_updated", "script_started", "script_completed",
    "script_failed", "task_progress", "task_checkpoint",
    "learning_captured", "error_recovered", "system_health",
    "metric_recorded" }

EmitTypes == {"task_checkpoint", "system_health"}

Levels == {"INFO", "WARNING", "ERROR", "SUCCESS", "DEBUG"}

EmitLevels == {"WARNING"}

\* the callbacks that can be registered: "good" returns, "bad" raises on
\* every call
Callbacks == {"good", "bad"}

\* the exceptions a monitored body can raise
Errors ==
  { [type |-> "ValueError", msg |-> <<"b","o","o","m">>],
    [type |-> "KeyError",   msg |-> <<"k">>] }

NoError == [type |-> "none", msg |-> <<>>]

NoTime == -1

\* ------------------------------------------------------------------------
\* Values of an event's data mapping (str, int/float, bool), tagged by kind
\* ------------------------------------------------------------------------
StrV(s) == [kind |-> "str", s |-> s, n |-> 0]

NumV(n) == [kind |-> "num", s |-> <<>>, n |-> n]

BoolV(b) == [kind |-> "bool", s |-> <<>>, n |-> IF b THEN 1 ELSE 0]

NoneV == [kind |-> "none", s |-> <<>>, n |-> 0]

\* a value json cannot encode (an exception, a datetime, a Path)
ObjV == [kind |-> "obj", s |-> <<>>, n |-> 0]

NoData == [k \in {} |-> NoneV]

\* dict.update: the entries of e override those of d
Update(d, e) ==
  [k \in DOMAIN d \cup DOMAIN e |-> IF k \in DOMAIN e THEN e[k] ELSE d[k]]

DigitChar(d) ==
  CASE d = 0 -> "0" [] d = 1 -> "1" [] d = 2 -> "2" [] d = 3 -> "3"
    [] d = 4 -> "4" [] d = 5 -> "5" [] d = 6 -> "6" [] d = 7 -> "7"
    [] d = 8 -> "8" [] OTHER -> "9"

RECURSIVE NatDigits(_)
NatDigits(n) ==
  IF n < 10 THEN <<DigitChar(n)>>
  ELSE NatDigits(n \div 10) \o <<DigitChar(n % 10)>>

IntDigits(n) == IF n < 0 THEN <<"-">> \o NatDigits(-n) ELSE NatDigits(n)

\* str(v)
Str(v) ==
  CASE v.kind = "str"  -> v.s
    [] v.kind = "num"  -> IntDigits(v.n)
    [] v.kind = "bool" -> IF v.n = 1 THEN <<"T","r","u","e">>
                          ELSE <<"F","a","l","s","e">>
    [] OTHER           -> <<"N","o","n","e">>

\* s[:n]
Prefix(s, n) == IF Len(s) <= n THEN s ELSE SubSeq(s, 1, n)

ShortText == <<"o","k">>

LongText == [i \in 1..(FieldTruncLen + 1) |-> IF i > FieldTruncLen THEN "z" ELSE "x"]

\* the data mappings passed to a direct emit call
EmitData ==
  { NoData,
    [k \in {"note"} |-> StrV(ShortText)],
    [k \in {"note", "blob"} |-> IF k = "blob" THEN StrV(LongText) ELSE NumV(7)] }

\* a script or directive name as text
NameChars(n) == IF n = "total" THEN <<"t","o","t","a","l">> ELSE <<n>>

\* ------------------------------------------------------------------------
\* Event
\* ------------------------------------------------------------------------
\* Event.__init__: the attributes of an Event object
Event(event_type, source, message, data, level, tnow) ==
  [ event_type |-> event_type,
    source     |-> source,
    message    |-> message,
    data       |-> data,
    level      |-> level,
    timestamp  |-> tnow,
    id         |-> <<event_type, "_">> \o IntDigits(tnow * 1000) ]

\* datetime.isoformat: the date, "T", the time of day
isoformat(t) ==
  IntDigits(t \div SecondsPerDay) \o <<"T">> \o NatDigits(t % SecondsPerDay)

\* Event.to_dict
to_dict(event) ==
  [ id        |-> event.id,
    type      |-> event.event_type,
    source    |-> event.source,
    message   |-> event.message,
    data      |-> event.data,
    level     |-> event.level,
    timestamp |-> isoformat(event.timestamp) ]

NoEvent == Event("none", "", <<>>, NoData, "INFO", NoTime)

\* attribute lookup on an object: a missing attribute raises AttributeError
HasAttr(obj, attr) == attr \in DOMAIN obj

\* ------------------------------------------------------------------------
\* State
\* ------------------------------------------------------------------------
VARIABLES
  console_enabled,      \* ObservabilityHub.console_enabled
  file_enabled,         \* ObservabilityHub.file_enabled
  slack_enabled,        \* ObservabilityHub.slack_enabled, SlackNotifier.enabled
  webhook_url,          \* SlackNotifier.webhook_url is set
  subscribers,          \* ObservabilityHub.subscribers
  _active_directives,   \* name -> start time
  _active_scripts,      \* name -> start time
  _metrics,             \* MetricsCollector._metrics: name -> series
  _counters,            \* MetricsCollector._counters: name -> int
  log_files,            \* EventLogger: day -> lines of events_<day>.jsonl
  start_time,           \* AgentObserver.start_time (NoTime for None)
  now,                  \* datetime.now(), in seconds
  ticks,                \* number of clock advances so far
  ops,                  \* number of calls made so far
  io_failures,          \* number of file appends that have failed so far
  blocks,               \* the `with observe_directive/observe_script` blocks
  called_d,             \* per directive name, the last lifecycle call made
  called_s,             \* per script name, the last lifecycle call made
  seen,                 \* per series, the record calls since the last reset
  counted,              \* per counter, the increment calls since the last reset
  logged,               \* per day, the records the log calls have written
  last,                 \* what the most recent call did and returned
  metrics_lock,         \* MetricsCollector._lock: "free" or the holding thread
  _instance,            \* ObservabilityHub._instance: 0 (None) or the object
  _initialized,         \* _instance._initialized: "unset", "false", "true"
  hub_lock,             \* ObservabilityHub._lock: "free" or the holding thread
  pc,                   \* per thread, where it stands in the call it makes
  frame                 \* per thread, the locals of that call

vars ==
  << console_enabled, file_enabled, slack_enabled, webhook_url, subscribers,
     _active_directives, _active_scripts, _metrics, _counters, log_files,
     start_time, now, ticks, ops, io_failures, blocks, called_d, called_s, seen, counted,
     logged, last, metrics_lock, _instance, _initialized, hub_lock, pc, frame >>

config == << console_enabled, file_enabled, slack_enabled, webhook_url >>

\* the locks, the singleton and the threads
sync == << metrics_lock, _instance, _initialized, hub_lock, pc, frame >>

\* the lock of the metrics, the singleton and its lock
sync_rest == << metrics_lock, _instance, _initialized, hub_lock >>

\* ------------------------------------------------------------------------
\* The effect of one call: the mutable state it works on and what it did
\* ------------------------------------------------------------------------
\* the state at the start of a call, nothing done yet
Ctx ==
  [ ad       |-> _active_directives,
    sc       |-> _active_scripts,
    metrics  |-> _metrics,
    counters |-> _counters,
    files    |-> log_files,
    start    |-> start_time,
    console  |-> <<>>,        \* lines printed
    appended |-> <<>>,        \* records appended to a log file
    failed_appends |-> 0,     \* log file appends that failed
    sends    |-> <<>>,        \* SlackNotifier.send invocations
    requests |-> 0,           \* urlopen calls
    results  |-> <<>>,        \* values returned by SlackNotifier.send
    recorded |-> <<>>,        \* MetricsCollector.record calls, <<name, value>>
    incremented |-> <<>>,     \* MetricsCollector.increment calls, <<name, amount>>
    invoked  |-> <<>>,        \* subscriber callbacks invoked
    served   |-> <<>>,        \* sinks emit has handed the event to, in order
    completed |-> <<>>,       \* sinks that have returned to emit, in order
    events   |-> <<>>,        \* Event objects constructed by emit
    ret      |-> NoEvent,     \* value returned by the last emit that returned
    raised   |-> NoError ]    \* exception leaving the call

Raise(c, type, msg) == [c EXCEPT !.raised = [type |-> type, msg |-> msg]]

Raised(c) == c.raised.type # "none"

\* ------------------------------------------------------------------------
\* SlackNotifier
\* ------------------------------------------------------------------------
\* what the one urlopen of a send can meet: status 200, another success
\* status, an HTTP error status, an unreachable host, the 10 s timeout
NetOutcomes == {"ok", "http204", "http500", "urlerror", "timeout"}

Line(tag, level, source, message) ==
  [tag |-> tag, level |-> level, source |-> source, message |-> message]

\* SlackNotifier._is_configured
_is_configured == webhook_url /\ slack_enabled

\* _send_payload as it would be if it tried again after a failure
_send_payload_retrying(c, message, level, net) ==
  LET c1 == [c EXCEPT !.requests = @ + 1]
  IN IF net \in {"ok", "http204"}
     THEN [c1 EXCEPT !.results = Append(@, net = "ok")]
     ELSE [c1 EXCEPT !.requests = @ + 1,
                     !.results = Append(@, FALSE),
                     !.console = Append(@, Line("slack_failed", level, "", message))]

\* SlackNotifier._send_payload: one urlopen; True on status 200, False on
\* another status, a diagnostic and False on any exception
_send_payload(c, message, level, net) ==
  LET c1 == [c EXCEPT !.requests = @ + 1]
  IN IF net \in {"ok", "http204"}
     THEN [c1 EXCEPT !.results = Append(@, net = "ok")]
     ELSE [c1 EXCEPT !.results = Append(@, FALSE),
                     !.console = Append(@, Line("slack_failed", level, "", message))]

\* send as it would be without the check of the configuration
send_unchecked(c, message, level, title, fields, net) ==
  _send_payload([c EXCEPT !.sends = Append(@, [message |-> message, level |-> level,
                                               title |-> title, fields |-> fields])],
                message, level, net)

\* SlackNotifier.send
send(c, message, level, title, fields, net) ==
  LET c1 == [c EXCEPT !.sends = Append(@, [message |-> message, level |-> level,
                                           title |-> title, fields |-> fields])]
  IN IF ~_is_configured
     THEN [c1 EXCEPT !.results = Append(@, FALSE),
                     !.console = Append(@, Line("slack_not_configured", level, "", message))]
     ELSE _send_payload(c1, message, level, net)

\* ------------------------------------------------------------------------
\* EventLogger
\* ------------------------------------------------------------------------
Day(t) == t \div SecondsPerDay

\* json.dumps of a str: quotes around the text, the quote and the backslash
\* escaped
RECURSIVE Escape(_)
Escape(s) ==
  IF s = <<>> THEN <<>>
  ELSE IF Len(s) = 1
  THEN (IF s[1] \in {"\"", "\\"} THEN <<"\\", s[1]>> ELSE s)
  ELSE LET half == Len(s) \div 2
       IN Escape(SubSeq(s, 1, half)) \o Escape(SubSeq(s, half + 1, Len(s)))

JsonString(s) == <<"\"">> \o Escape(s) \o <<"\"">>

\* json.loads of a string literal: a backslash after an even number of
\* backslashes escapes the character that follows it and is dropped
Unescape(s) ==
  LET RunBefore(i) ==
        LET others == {j \in 1..(i - 1) : s[j] # "\\"}
        IN IF others = {} THEN i - 1
           ELSE i - 1 - (CHOOSE m \in others : \A j \in others : j <= m)
      Escapes(i) == s[i] = "\\" /\ RunBefore(i) % 2 = 0
      kept == SelectSeq([i \in DOMAIN s |-> i], LAMBDA i : ~Escapes(i))
  IN [k \in DOMAIN kept |-> s[kept[k]]]

ParseString(j) == Unescape(SubSeq(j, 2, Len(j) - 1))

DigitValue(ch) ==
  CASE ch = "0" -> 0 [] ch = "1" -> 1 [] ch = "2" -> 2 [] ch = "3" -> 3
    [] ch = "4" -> 4 [] ch = "5" -> 5 [] ch = "6" -> 6 [] ch = "7" -> 7
    [] ch = "8" -> 8 [] OTHER -> 9

RECURSIVE ParseNat(_)
ParseNat(s) ==
  IF s = <<>> THEN 0 ELSE ParseNat(SubSeq(s, 1, Len(s) - 1)) * 10 + DigitValue(s[Len(s)])

ParseInt(s) == IF Head(s) = "-" THEN -ParseNat(Tail(s)) ELSE ParseNat(s)

\* json.dumps / json.loads of one value of the data mapping
JsonValue(v) ==
  CASE v.kind = "str"  -> JsonString(v.s)
    [] v.kind = "num"  -> IntDigits(v.n)
    [] v.kind = "bool" -> IF v.n = 1 THEN <<"true">> ELSE <<"false">>
    [] OTHER           -> <<"null">>

ParseValue(j) ==
  CASE Head(j) = "\""  -> StrV(ParseString(j))
    [] j = <<"true">>  -> BoolV(TRUE)
    [] j = <<"false">> -> BoolV(FALSE)
    [] j = <<"null">>  -> NoneV
    [] OTHER           -> NumV(ParseInt(j))

\* json.dumps raises TypeError on a value it cannot encode
Serializable(d) == \A k \in DOMAIN d.data : d.data[k].kind # "obj"

\* dumps as it would be if it wrote the text of a str as it stands
dumps_raw(d) ==
  [ id        |-> <<"\"">> \o d.id \o <<"\"">>,
    type      |-> <<"\"", d.type, "\"">>,
    source    |-> <<"\"", d.source, "\"">>,
    message   |-> <<"\"">> \o d.message \o <<"\"">>,
    data      |-> [k \in DOMAIN d.data |-> JsonValue(d.data[k])],
    level     |-> <<"\"", d.level, "\"">>,
    timestamp |-> <<"\"">> \o d.timestamp \o <<"\"">> ]

\* json.dumps(event.to_dict()): one line of the log file
dumps(d) ==
  [ id        |-> JsonString(d.id),
    type      |-> JsonString(<<d.type>>),
    source    |-> JsonString(<<d.source>>),
    message   |-> JsonString(d.message),
    data      |-> [k \in DOMAIN d.data |-> JsonValue(d.data[k])],
    level     |-> JsonString(<<d.level>>),
    timestamp |-> JsonString(d.timestamp) ]

\* json.loads(line)
loads(line) ==
  [ id        |-> ParseString(line.id),
    type      |-> ParseString(line.type)[1],
    source    |-> ParseString(line.source)[1],
    message   |-> ParseString(line.message),
    data      |-> [k \in DOMAIN line.data |-> ParseValue(line.data[k])],
    level     |-> ParseString(line.level)[1],
    timestamp |-> ParseString(line.timestamp) ]

\* EventLogger.log: append one line to the file of the current day; a failed
\* open or write raises OSError; the file is opened (and so exists) before
\* json.dumps runs, which raises TypeError on data it cannot encode
log(c, event, tnow, fileOk) ==
  IF ~fileOk THEN Raise([c EXCEPT !.failed_appends = @ + 1], "OSError", <<"i","o">>)
  ELSE LET d == Day(tnow)
           old == IF d \in DOMAIN c.files THEN c.files[d] ELSE <<>>
           opened == [x \in DOMAIN c.files \cup {d} |->
                        IF x = d THEN old ELSE c.files[x]]
       IN IF ~Serializable(to_dict(event))
          THEN Raise([c EXCEPT !.files = opened], "TypeError", <<"j","s","o","n">>)
          ELSE [c EXCEPT !.files = [opened EXCEPT ![d] =
                                      Append(old, dumps(to_dict(event)))],
                         !.appended = Append(@, to_dict(event))]

\* an optional argument: None, or a value
NoArg == [given |-> FALSE, value |-> ""]

Arg(v) == [given |-> TRUE, value |-> v]

\* the truth value of an Optional[str] argument: None and "" are false
Truthy(arg) == arg.given /\ arg.value # ""

\* EventLogger.get_events; date is a time, or NoTime for None
get_events(files, date, event_type, source, tnow) ==
  LET d == Day(IF date # NoTime THEN date ELSE tnow)
  IN IF d \notin DOMAIN files THEN <<>>
     ELSE LET data == [i \in DOMAIN files[d] |-> loads(files[d][i])]
          IN SelectSeq(data, LAMBDA r :
               /\ ~(event_type.given /\ r.type # event_type.value)
               /\ ~(Truthy(source) /\ r.source # source.value))

\* ------------------------------------------------------------------------
\* ObservabilityHub.emit and the sinks it serves
\* ------------------------------------------------------------------------
\* ObservabilityHub._log_to_console
_log_to_console(c, event) ==
  [c EXCEPT !.console = Append(@, Line("event", event.level, event.source, event.message))]

\* title_map of _notify_slack
title_map ==
  [ directive_started   |-> "Directive Started",
    directive_completed |-> "Directive Completed",
    directive_failed    |-> "Directive Failed",
    directive_updated   |-> "Directive Updated",
    script_started      |-> "Script Started",
    script_completed    |-> "Script Completed",
    script_failed       |-> "Script Failed",
    task_progress       |-> "Progress Update",
    task_checkpoint     |-> "Checkpoint",
    learning_captured   |-> "Learning Captured",
    error_recovered     |-> "Error Recovered",
    system_health       |-> "System Health",
    metric_recorded     |-> "Metrics" ]

\* title_map.get(t, "Event")
TitleOf(t) == IF t \in DOMAIN title_map THEN title_map[t] ELSE "Event"

\* the fields of _notify_slack: Source, then every data entry as text cut
\* to 100 characters
SlackFields(event) ==
  Update([k \in {"Source"} |-> NameChars(event.source)],
         [k \in DOMAIN event.data |-> Prefix(Str(event.data[k]), FieldTruncLen)])

\* ObservabilityHub._notify_slack: the arguments of slack.send are evaluated
\* before the call, and the title is looked up under event.type
_notify_slack(c, event, net) ==
  IF ~HasAttr(event, "type")
  THEN Raise(c, "AttributeError", <<"t","y","p","e">>)
  ELSE send(c, event.message, event.level, TitleOf(event.type),
            SlackFields(event), net)

\* the subscriber loop of emit: every callback is called; one that raises
\* is reported on the console
RECURSIVE NotifySubscribers(_, _, _)
NotifySubscribers(c, subs, event) ==
  IF subs = <<>> THEN c
  ELSE LET cb == Head(subs)
           c1 == [c EXCEPT !.invoked = Append(@, cb)]
           c2 == IF cb = "bad"
                 THEN [c1 EXCEPT !.console =
                         Append(@, Line("subscriber_error", event.level, cb, <<>>))]
                 ELSE c1
       IN NotifySubscribers(c2, Tail(subs), event)

\* emit hands the event to a sink; the sink returns unless it raised
Serve(c, sink) == [c EXCEPT !.served = Append(@, sink)]

Done(c, sink) == IF Raised(c) THEN c ELSE [c EXCEPT !.completed = Append(@, sink)]

\* the console step of emit
ConsoleStep(c, event) ==
  IF console_enabled
  THEN Done(_log_to_console(Serve(c, "console"), event), "console")
  ELSE c

\* the file step as it would be if emit caught the error of the logger
FileStep_guarded(c, event, tnow, io) ==
  IF file_enabled
  THEN [log(Serve(c, "file"), event, tnow, io.fileOk) EXCEPT !.raised = NoError]
  ELSE c

\* the file step of emit
FileStep(c, event, tnow, io) ==
  IF file_enabled
  THEN Done(log(Serve(c, "file"), event, tnow, io.fileOk), "file")
  ELSE c

\* the webhook step as it would be if emit ignored notify_slack and handed
\* the event to the notifier itself
SlackStep_unconditional(c, event, notify_slack, io) ==
  IF slack_enabled
  THEN send(c, event.message, event.level, TitleOf(event.event_type),
            SlackFields(event), io.net)
  ELSE c

\* the webhook step of emit
SlackStep(c, event, notify_slack, io) ==
  IF notify_slack /\ slack_enabled
  THEN Done(_notify_slack(Serve(c, "webhook"), event, io.net), "webhook")
  ELSE c

\* the subscriber step of emit
SubscriberStep(c, event) ==
  IF subscribers # <<>>
  THEN Done(NotifySubscribers(Serve(c, "subscribers"), subscribers, event),
            "subscribers")
  ELSE c

\* ObservabilityHub.emit
emit(c, event_type, source, message, data, level, notify_slack, tnow, io) ==
  LET event == Event(event_type, source, message, data, level, tnow)
      c0 == [c EXCEPT !.events = Append(@, event)]
      c1 == ConsoleStep(c0, event)
      c2 == FileStep(c1, event, tnow, io)
      c3 == IF Raised(c2) THEN c2 ELSE SlackStep(c2, event, notify_slack, io)
      c4 == IF Raised(c3) THEN c3 ELSE SubscriberStep(c3, event)
  IN IF Raised(c4) THEN c4 ELSE [c4 EXCEPT !.ret = event]

\* emit_info(source, message, **data)
emit_info(c, source, message, data, tnow, io) ==
  emit(c, "task_progress", source, message, data, "INFO", TRUE, tnow, io)

\* emit_warning(source, message, **data)
emit_warning(c, source, message, data, tnow, io) ==
  emit(c, "task_progress", source, message, data, "WARNING", TRUE, tnow, io)

\* emit_error(source, message, **data)
emit_error(c, source, message, data, tnow, io) ==
  emit(c, "script_failed", source, message, data, "ERROR", TRUE, tnow, io)

\* ------------------------------------------------------------------------
\* MetricsCollector (each method holds the lock from entry to return)
\* ------------------------------------------------------------------------
\* record as it would be if it stored the value instead of appending it
record_overwrite(c, name, value) ==
  [c EXCEPT !.metrics = [k \in DOMAIN c.metrics \cup {name} |->
                           IF k = name THEN <<value>> ELSE c.metrics[k]],
            !.recorded = Append(@, <<name, value>>)]

\* MetricsCollector.record
record(c, name, value) ==
  LET old == IF name \in DOMAIN c.metrics THEN c.metrics[name] ELSE <<>>
  IN [c EXCEPT !.metrics = [k \in DOMAIN c.metrics \cup {name} |->
                              IF k = name THEN Append(old, value) ELSE c.metrics[k]],
               !.recorded = Append(@, <<name, value>>)]

\* increment as it would be if it stored the amount instead of adding it
increment_overwrite(c, name, amount) ==
  [c EXCEPT !.counters = [k \in DOMAIN c.counters \cup {name} |->
                            IF k = name THEN amount ELSE c.counters[k]],
            !.incremented = Append(@, <<name, amount>>)]

\* MetricsCollector.increment
increment(c, name, amount) ==
  LET old == IF name \in DOMAIN c.counters THEN c.counters[name] ELSE 0
  IN [c EXCEPT !.counters = [k \in DOMAIN c.counters \cup {name} |->
                               IF k = name THEN old + amount ELSE c.counters[k]],
               !.incremented = Append(@, <<name, amount>>)]

RECURSIVE SumSeq(_)
SumSeq(s) == IF s = <<>> THEN 0 ELSE Head(s) + SumSeq(Tail(s))

RECURSIVE MinSeq(_)
MinSeq(s) ==
  IF Len(s) = 1 THEN s[1]
  ELSE LET m == MinSeq(Tail(s)) IN IF Head(s) <= m THEN Head(s) ELSE m

RECURSIVE MaxSeq(_)
MaxSeq(s) ==
  IF Len(s) = 1 THEN s[1]
  ELSE LET m == MaxSeq(Tail(s)) IN IF Head(s) >= m THEN Head(s) ELSE m

RECURSIVE Gcd(_, _)
Gcd(a, b) == IF b = 0 THEN a ELSE Gcd(b, a % b)

Abs(x) == IF x < 0 THEN -x ELSE x

\* the quotient a / b of true division, b > 0, as a fraction in lowest terms
Quotient(a, b) ==
  LET g == Gcd(Abs(a), b) IN [num |-> a \div g, den |-> b \div g]

EmptySummary == [k \in {} |-> 0]

\* MetricsCollector.get_summary
get_summary(metrics, name) ==
  LET values == IF name \in DOMAIN metrics THEN metrics[name] ELSE <<>>
  IN IF values = <<>> THEN EmptySummary
     ELSE [ count |-> Len(values),
            sum   |-> SumSeq(values),
            avg   |-> Quotient(SumSeq(values), Len(values)),
            min   |-> MinSeq(values),
            max   |-> MaxSeq(values) ]

\* MetricsCollector.get_counter
get_counter(counters, name) ==
  IF name \in DOMAIN counters THEN counters[name] ELSE 0

\* reset as it would be if it cleared the series only
reset_series_only(c) == [c EXCEPT !.metrics = [k \in {} |-> <<>>]]

\* MetricsCollector.reset
reset(c) ==
  [c EXCEPT !.metrics = [k \in {} |-> <<>>], !.counters = [k \in {} |-> 0]]

\* ------------------------------------------------------------------------
\* ObservabilityHub: the convenience methods
\* ------------------------------------------------------------------------
\* n / d rounded to the nearest integer, ties to even
RoundDiv(n, d) ==
  LET q == n \div d
      r == n % d
  IN IF 2 * r > d \/ (2 * r = d /\ q % 2 = 1) THEN q + 1 ELSE q

\* a number of tenths printed with one decimal: format(x, ".1f")
OneDecimal(t) == NatDigits(t \div 10) \o <<".", DigitChar(t % 10)>>

Unknown == <<"u","n","k","n","o","w","n">>

\* _get_duration as it would be with the thresholds compared by <=
_get_duration_inclusive(start, tnow) ==
  IF start = NoTime THEN Unknown
  ELSE LET seconds == tnow - start
       IN IF seconds <= SecondsPerMinute
          THEN NatDigits(seconds) \o <<".","0","0","s">>
          ELSE IF seconds <= SecondsPerHour
          THEN OneDecimal(RoundDiv(seconds * 10, SecondsPerMinute)) \o <<"m">>
          ELSE OneDecimal(RoundDiv(seconds * 10, SecondsPerHour)) \o <<"h">>

\* ObservabilityHub._get_duration (start is NoTime for None)
_get_duration(start, tnow) ==
  IF start = NoTime THEN Unknown
  ELSE LET seconds == tnow - start
       IN IF seconds < SecondsPerMinute
          THEN NatDigits(seconds) \o <<".","0","0","s">>
          ELSE IF seconds < SecondsPerHour
          THEN OneDecimal(RoundDiv(seconds * 10, SecondsPerMinute)) \o <<"m">>
          ELSE OneDecimal(RoundDiv(seconds * 10, SecondsPerHour)) \o <<"h">>

\* dict.pop(name, None): the value removed
PopValue(map, name) == IF name \in DOMAIN map THEN map[name] ELSE NoTime

\* the mapping left if the entry were read with get instead of pop
PopRest_keep(map, name) == map

\* dict.pop(name, None): the mapping left
PopRest(map, name) == [k \in DOMAIN map \ {name} |-> map[k]]

\* map[name] = value
Put(map, name, value) ==
  [k \in DOMAIN map \cup {name} |-> IF k = name THEN value ELSE map[k]]

\* type(error).__name__ as text
TypeName(error) ==
  IF error.type = "ValueError" THEN <<"V","a","l","u","e","E","r","r","o","r">>
  ELSE IF error.type = "KeyError" THEN <<"K","e","y","E","r","r","o","r">>
  ELSE IF error.type = "OSError" THEN <<"O","S","E","r","r","o","r">>
  ELSE <<"A","t","t","r","i","b","u","t","e","E","r","r","o","r">>

\* ObservabilityHub.directive_started
directive_started(c, name, context, tnow, io) ==
  emit([c EXCEPT !.ad = Put(c.ad, name, tnow)],
       "directive_started", name, <<"Started directive: ", name>>,
       context, "INFO", TRUE, tnow, io)

\* ObservabilityHub.directive_completed
directive_completed(c, name, result, tnow, io) ==
  LET duration == _get_duration(PopValue(c.ad, name), tnow)
      data == Update([k \in {"duration"} |-> StrV(duration)], result)
  IN emit([c EXCEPT !.ad = PopRest(c.ad, name)],
          "directive_completed", name, <<"Completed directive: ", name>>,
          data, "SUCCESS", TRUE, tnow, io)

\* ObservabilityHub.directive_failed
directive_failed(c, name, error, tnow, io) ==
  LET duration == _get_duration(PopValue(c.ad, name), tnow)
      data == [k \in {"duration", "error", "error_type"} |->
                 IF k = "duration" THEN StrV(duration)
                 ELSE IF k = "error" THEN StrV(error.msg)
                 ELSE StrV(TypeName(error))]
  IN emit([c EXCEPT !.ad = PopRest(c.ad, name)],
          "directive_failed", name,
          <<"Failed directive: ", name, " - ">> \o error.msg,
          data, "ERROR", TRUE, tnow, io)

\* script_started as it would be if scripts and directives shared one map
script_started_shared(c, name, directive, tnow, io) ==
  LET data == IF directive # "" THEN [k \in {"directive"} |-> StrV(NameChars(directive))]
              ELSE NoData
  IN emit([c EXCEPT !.ad = Put(c.ad, name, tnow), !.sc = Put(c.sc, name, tnow)],
          "script_started", name, <<"Started script: ", name>>,
          data, "INFO", TRUE, tnow, io)

\* ObservabilityHub.script_started (directive "" stands for None)
script_started(c, name, directive, tnow, io) ==
  LET data == IF directive # "" THEN [k \in {"directive"} |-> StrV(NameChars(directive))]
              ELSE NoData
  IN emit([c EXCEPT !.sc = Put(c.sc, name, tnow)],
          "script_started", name, <<"Started script: ", name>>,
          data, "INFO", TRUE, tnow, io)

\* isinstance(v, (int, float)): bool is a subclass of int
IsNumeric(v) == v.kind \in {"num", "bool"}

\* the loop of script_completed that records the numeric metrics
RECURSIVE RecordMetrics(_, _, _, _)
RecordMetrics(c, name, metrics, keys) ==
  IF keys = {} THEN c
  ELSE LET k == CHOOSE x \in keys : TRUE
           c1 == IF IsNumeric(metrics[k]) THEN record(c, <<name, k>>, metrics[k].n)
                 ELSE c
       IN RecordMetrics(c1, name, metrics, keys \ {k})

\* ObservabilityHub.script_completed
script_completed(c, name, metrics, tnow, io) ==
  LET duration == _get_duration(PopValue(c.sc, name), tnow)
      data == Update([k \in {"duration"} |-> StrV(duration)], metrics)
      c1 == RecordMetrics([c EXCEPT !.sc = PopRest(c.sc, name)],
                          name, metrics, DOMAIN metrics)
  IN emit(c1, "script_completed", name, <<"Completed script: ", name>>,
          data, "SUCCESS", TRUE, tnow, io)

\* ObservabilityHub.script_failed
script_failed(c, name, error, tnow, io) ==
  LET duration == _get_duration(PopValue(c.sc, name), tnow)
      c1 == increment([c EXCEPT !.sc = PopRest(c.sc, name)], <<"errors", "total">>, 1)
      c2 == increment(c1, <<"errors", name>>, 1)
      data == [k \in {"duration", "error"} |->
                 IF k = "duration" THEN StrV(duration) ELSE StrV(error.msg)]
  IN emit(c2, "script_failed", name,
          <<"Script failed: ", name, " - ">> \o error.msg,
          data, "ERROR", TRUE, tnow, io)

\* ObservabilityHub.learning
learning(c, source, text, directive_updated, tnow, io) ==
  emit(c, "learning_captured", source, text,
       [k \in {"directive_updated"} |-> BoolV(directive_updated)],
       "INFO", TRUE, tnow, io)

NoPercent == -1

\* progress as it would be without notify_slack=False
progress_notifying(c, source, message, percent, tnow, io) ==
  LET data == IF percent # NoPercent
              THEN [k \in {"percent"} |-> StrV(OneDecimal(percent) \o <<"%">>)]
              ELSE NoData
  IN emit(c, "task_progress", source, message, data, "INFO", TRUE, tnow, io)

\* ObservabilityHub.progress (percent in thousandths, NoPercent for None)
progress(c, source, message, percent, tnow, io) ==
  LET data == IF percent # NoPercent
              THEN [k \in {"percent"} |-> StrV(OneDecimal(percent) \o <<"%">>)]
              ELSE NoData
  IN emit(c, "task_progress", source, message, data, "INFO", FALSE, tnow, io)

\* ------------------------------------------------------------------------
\* AgentObserver (slack_notifier.py): one observer, of the script "a"
\* ------------------------------------------------------------------------
UnknownCapital == <<"U","n","k","n","o","w","n">>

\* AgentObserver._get_duration
observer_get_duration(start, tnow) ==
  IF start = NoTime THEN UnknownCapital
  ELSE LET seconds == tnow - start
       IN IF seconds < SecondsPerMinute
          THEN NatDigits(seconds) \o <<".","0","0","s">>
          ELSE IF seconds < SecondsPerHour
          THEN OneDecimal(RoundDiv(seconds * 10, SecondsPerMinute)) \o <<"m">>
          ELSE OneDecimal(RoundDiv(seconds * 10, SecondsPerHour)) \o <<"h">>

\* the entries of a context or result mapping as fields: str(v)[:100]
ContextFields(context) ==
  [k \in DOMAIN context |-> Prefix(Str(context[k]), FieldTruncLen)]

\* AgentObserver.script_started
observer_script_started(c, script_name, context, tnow, net) ==
  send([c EXCEPT !.start = tnow],
       <<"Started execution of ", script_name>>, "INFO", "Script Started",
       Update([k \in {"Script"} |-> NameChars(script_name)], ContextFields(context)),
       net)

\* AgentObserver.script_completed
observer_script_completed(c, script_name, result, tnow, net) ==
  LET duration == observer_get_duration(c.start, tnow)
  IN send(c, <<"Successfully completed ", script_name>>, "SUCCESS",
          "Script Completed",
          Update([k \in {"Script", "Duration"} |->
                    IF k = "Script" THEN NameChars(script_name) ELSE duration],
                 ContextFields(result)),
          net)

\* AgentObserver.script_failed
observer_script_failed(c, script_name, error, tnow, net) ==
  LET duration == observer_get_duration(c.start, tnow)
  IN send(c, <<"Failed execution of ", script_name, "traceback">>, "ERROR",
          "Script Failed",
          [k \in {"Script", "Duration", "Error Type", "Error"} |->
             CASE k = "Script" -> NameChars(script_name)
               [] k = "Duration" -> duration
               [] k = "Error Type" -> <<TypeName(error)>>
               [] OTHER -> Prefix(error.msg, 200)], net)

\* ------------------------------------------------------------------------
\* The decorator observe (slack_notifier.py)
\* ------------------------------------------------------------------------
\* how a call of the decorated function ends: it returns a value, raises an
\* Exception, or raises an exception that is not an Exception (sys.exit,
\* Ctrl-C)
FuncOutcomes ==
  { [kind |-> "returns", value |-> NumV(7), error |-> NoError],
    [kind |-> "returns", value |-> NoneV, error |-> NoError],
    [kind |-> "raises", value |-> NoneV,
     error |-> [type |-> "ValueError", msg |-> <<"b","o","o","m">>]],
    [kind |-> "raises", value |-> NoneV,
     error |-> [type |-> "SystemExit", msg |-> <<"0">>]],
    [kind |-> "raises", value |-> NoneV,
     error |-> [type |-> "KeyboardInterrupt", msg |-> <<>>]] }

\* `except Exception` handles the error
IsException(error) == error.type \notin {"SystemExit", "KeyboardInterrupt", "GeneratorExit"}

\* {"args": str(args)[:100], "kwargs": str(kwargs)[:100]} of a call
\* without arguments
CallContext ==
  [k \in {"args", "kwargs"} |->
     IF k = "args" THEN StrV(<<"(", ")">>) ELSE StrV(<<"{", "}">>)]

\* {"return_type": type(result).__name__}
ReturnType(value) ==
  [k \in {"return_type"} |->
     StrV(IF value.kind = "num" THEN <<"i","n","t">>
          ELSE <<"N","o","n","e","T","y","p","e">>)]

\* `except Exception as e: observer.script_failed(e); raise`
ExceptHandler(c, script_name, error, tnow, net) ==
  IF IsException(error)
  THEN [Serve(observer_script_failed(c, script_name, error, tnow, net), "script_failed")
          EXCEPT !.raised = error]
  ELSE [c EXCEPT !.raised = error]

\* the try block of wrapper once the started call has ended as c: the
\* function runs, then script_completed and the return, or the handler
TryCall(c, script_name, outcome, tnow, net) ==
  IF outcome.kind = "returns"
  THEN [Serve(observer_script_completed(c, script_name, ReturnType(outcome.value),
                                        tnow, net), "script_completed")
          EXCEPT !.ret = outcome.value]
  ELSE ExceptHandler(c, script_name, outcome.error, tnow, net)

\* wrapper(*args, **kwargs) of observe(script_name): a new observer, its
\* script_started, then the try block; `served` lists what ran, in order
wrapper(c, script_name, outcome, tnow, net1, net2) ==
  TryCall(Serve(Serve(observer_script_started([c EXCEPT !.start = NoTime],
                                              script_name, CallContext, tnow, net1),
                      "script_started"),
                "func"),
          script_name, outcome, tnow, net2)

\* ------------------------------------------------------------------------
\* Bookkeeping of calls
\* ------------------------------------------------------------------------
Kinds == {"directive", "script"}

IdleBlock ==
  [ pc     |-> "idle",      \* idle, body (inside the with body), exited
    name   |-> "",
    calls  |-> <<>>,        \* hub methods the wrapper has called
    events |-> <<>>,        \* types of the events those calls constructed
    body   |-> NoError,     \* exception raised by the body
    handler |-> NoError,    \* exception raised by the wrapper's own hub call
    out    |-> NoError ]    \* exception leaving the with statement

\* the record calls of one call folded into the per-series tallies
RECURSIVE Tally(_, _)
Tally(t, recs) ==
  IF recs = <<>> THEN t
  ELSE LET name == Head(recs)[1]
           v == Head(recs)[2]
           new == IF name \in DOMAIN t
                  THEN [ n  |-> t[name].n + 1,
                         total |-> t[name].total + v,
                         lo |-> IF v < t[name].lo THEN v ELSE t[name].lo,
                         hi |-> IF v > t[name].hi THEN v ELSE t[name].hi ]
                  ELSE [n |-> 1, total |-> v, lo |-> v, hi |-> v]
       IN Tally([k \in DOMAIN t \cup {name} |-> IF k = name THEN new ELSE t[k]],
                Tail(recs))

NoTally == [k \in {} |-> [n |-> 0, total |-> 0, lo |-> 0, hi |-> 0]]

\* the increment calls of one call folded into the per-counter tallies
RECURSIVE Count(_, _)
Count(t, incs) ==
  IF incs = <<>> THEN t
  ELSE LET name == Head(incs)[1]
           a == Head(incs)[2]
           new == IF name \in DOMAIN t
                  THEN [n |-> t[name].n + 1, total |-> t[name].total + a]
                  ELSE [n |-> 1, total |-> a]
       IN Count([k \in DOMAIN t \cup {name} |-> IF k = name THEN new ELSE t[k]],
                Tail(incs))

NoCount == [k \in {} |-> [n |-> 0, total |-> 0]]

\* the records one call appended, added to those written on that day
Written(w, day, recs) ==
  IF recs = <<>> THEN w
  ELSE [d \in DOMAIN w \cup {day} |->
          IF d = day THEN (IF d \in DOMAIN w THEN w[d] ELSE <<>>) \o recs
          ELSE w[d]]

Threads == {"t1", "t2"}

\* a thread that is not inside a call
NoFrame == [caller |-> "", name |-> <<>>, pending |-> {}, acc |-> <<>>, self |-> 0]

\* what one emit can meet in the current state: whether the file append
\* works, and the outcome of the network request
IOs(notify_slack) ==
  [ fileOk : IF file_enabled /\ io_failures < MaxIOFailures THEN BOOLEAN ELSE {TRUE},
    net    : IF notify_slack /\ _is_configured THEN NetOutcomes ELSE {"ok"} ]

\* the state left by a call and the record of what it did
Effect(c, op, name, notify_slack, result) ==
  /\ _active_directives' = c.ad
  /\ _active_scripts' = c.sc
  /\ _metrics' = c.metrics
  /\ _counters' = c.counters
  /\ log_files' = c.files
  /\ start_time' = c.start
  /\ seen' = IF op = "reset" THEN NoTally ELSE Tally(seen, c.recorded)
  /\ counted' = IF op = "reset" THEN NoCount ELSE Count(counted, c.incremented)
  /\ logged' = Written(logged, Day(now), c.appended)
  /\ ops' = ops + 1
  /\ io_failures' = io_failures + c.failed_appends
  /\ last' = [ op |-> op, name |-> name, notify_slack |-> notify_slack,
               fileOk |-> c.failed_appends = 0,
               at |-> now,
               console |-> c.console, appended |-> c.appended,
               sends |-> c.sends, requests |-> c.requests,
               results |-> c.results, recorded |-> c.recorded,
               incremented |-> c.incremented, invoked |-> c.invoked,
               served |-> c.served, completed |-> c.completed,
               events |-> c.events, ret |-> c.ret, raised |-> c.raised,
               result |-> result ]
  /\ UNCHANGED <<config, now, ticks>>

\* a call that leaves the locks, the singleton and the threads alone
Commit(c, op, name, notify_slack, result) ==
  Effect(c, op, name, notify_slack, result) /\ UNCHANGED sync

NoCall ==
  [ op |-> "none", name |-> "", notify_slack |-> FALSE, fileOk |-> TRUE,
    at |-> 0,
    console |-> <<>>, appended |-> <<>>, sends |-> <<>>, requests |-> 0,
    results |-> <<>>, recorded |-> <<>>, incremented |-> <<>>,
    invoked |-> <<>>, served |-> <<>>, completed |-> <<>>,
    events |-> <<>>, ret |-> NoEvent, raised |-> NoError,
    result |-> 0 ]

\* ------------------------------------------------------------------------
\* Initial state: a freshly constructed hub, any configuration
\* ------------------------------------------------------------------------
InitData ==
  /\ console_enabled \in BOOLEAN
  /\ file_enabled \in BOOLEAN
  /\ slack_enabled \in BOOLEAN
  /\ webhook_url \in BOOLEAN
  /\ subscribers = <<>>
  /\ _active_directives = [k \in {} |-> 0]
  /\ _active_scripts = [k \in {} |-> 0]
  /\ _metrics = [k \in {} |-> <<>>]
  /\ _counters = [k \in {} |-> 0]
  /\ log_files = [d \in {} |-> <<>>]
  /\ start_time = NoTime
  /\ now = 0
  /\ ticks = 0
  /\ ops = 0
  /\ io_failures = 0
  /\ blocks = [k \in Kinds |-> IdleBlock]
  /\ called_d = [n \in Names |-> "none"]
  /\ called_s = [n \in Names |-> "none"]
  /\ seen = NoTally
  /\ counted = NoCount
  /\ logged = [d \in {} |-> <<>>]
  /\ last = NoCall

\* the hub exists and every thread has it
Init ==
  /\ InitData
  /\ metrics_lock = "free"
  /\ _instance = 1
  /\ _initialized = "true"
  /\ hub_lock = "free"
  /\ pc = [t \in Threads |-> "ready"]
  /\ frame = [t \in Threads |-> NoFrame]

\* ------------------------------------------------------------------------
\* Actions: direct calls on the hub
\* ------------------------------------------------------------------------
Hello == <<"hello">>

\* time passes while a unit of work is in flight
Tick ==
  /\ ticks < MaxTicks
  /\ \/ DOMAIN _active_directives \cup DOMAIN _active_scripts # {}
     \/ start_time # NoTime
  /\ \E d \in TickSteps : now' = now + d
  /\ ticks' = ticks + 1
  /\ UNCHANGED <<config, subscribers, _active_directives, _active_scripts,
                 _metrics, _counters, log_files, start_time, ops, io_failures, blocks,
                 called_d, called_s, seen, counted, logged, last, sync>>

\* hub.subscribe(callback)
Subscribe ==
  /\ ops < MaxOps
  /\ Len(subscribers) < MaxSubs
  /\ \E cb \in Callbacks :
       /\ subscribers' = Append(subscribers, cb)
       /\ Commit(Ctx, "subscribe", cb, FALSE, 0)
  /\ UNCHANGED <<blocks, called_d, called_s>>

\* hub.emit(event_type, source, message, data, level, notify_slack)
Emit ==
  /\ ops < MaxOps
  /\ \E t \in EmitTypes, data \in EmitData, level \in EmitLevels,
        notify_slack \in BOOLEAN :
       \E io \in IOs(notify_slack) :
         Commit(emit(Ctx, t, "a", Hello, data, level, notify_slack, now, io),
                "emit", "a", notify_slack, 0)
  /\ UNCHANGED <<subscribers, blocks, called_d, called_s>>

\* hub.learning(source, learning, directive_updated)
Learning ==
  /\ ops < MaxOps
  /\ \E io \in IOs(TRUE) :
       Commit(learning(Ctx, "a", Hello, FALSE, now, io),
              "learning", "a", TRUE, 0)
  /\ UNCHANGED <<subscribers, blocks, called_d, called_s>>

\* hub.progress(source, message, percent)
Progress ==
  /\ ops < MaxOps
  /\ \E percent \in {NoPercent, 500} :
       \E io \in IOs(FALSE) :
         Commit(progress(Ctx, "a", Hello, percent, now, io),
                "progress", "a", FALSE, percent)
  /\ UNCHANGED <<subscribers, blocks, called_d, called_s>>

Next == Subscribe \/ Emit \/ Learning \/ Progress

Spec == Init /\ [][Next]_vars

\* ------------------------------------------------------------------------
\* Actions: the lifecycle of directives and scripts
\* ------------------------------------------------------------------------
Results == {[k \in {"rows"} |-> NumV(3)]}

MetricsInputs ==
  { NoData,
    [k \in {"rows", "label", "ok"} |->
       IF k = "rows" THEN NumV(4)
       ELSE IF k = "label" THEN StrV(ShortText) ELSE BoolV(TRUE)] }

Directives == {"a"}

\* the exception passed to a direct directive_failed / script_failed call
DirectErrors == {[type |-> "KeyError", msg |-> <<"k">>]}

\* hub.directive_started(name)
DirectiveStarted ==
  /\ ops < MaxOps
  /\ \E name \in Names : \E io \in IOs(TRUE) :
       /\ Commit(directive_started(Ctx, name, NoData, now, io),
                 "directive_started", name, TRUE, 0)
       /\ called_d' = [called_d EXCEPT ![name] = "started"]
  /\ UNCHANGED <<subscribers, blocks, called_s>>

\* hub.directive_completed(name, result)
DirectiveCompleted ==
  /\ ops < MaxOps
  /\ \E name \in Names, result \in Results : \E io \in IOs(TRUE) :
       /\ Commit(directive_completed(Ctx, name, result, now, io),
                 "directive_completed", name, TRUE, 0)
       /\ called_d' = [called_d EXCEPT ![name] = "completed"]
  /\ UNCHANGED <<subscribers, blocks, called_s>>

\* hub.directive_failed(name, error)
DirectiveFailed ==
  /\ ops < MaxOps
  /\ \E name \in Names, error \in DirectErrors : \E io \in IOs(TRUE) :
       /\ Commit(directive_failed(Ctx, name, error, now, io),
                 "directive_failed", name, TRUE, error)
       /\ called_d' = [called_d EXCEPT ![name] = "failed"]
  /\ UNCHANGED <<subscribers, blocks, called_s>>

\* hub.script_started(name, directive)
ScriptStarted ==
  /\ ops < MaxOps
  /\ \E name \in Names, directive \in Directives : \E io \in IOs(TRUE) :
       /\ Commit(script_started(Ctx, name, directive, now, io),
                 "script_started", name, TRUE, 0)
       /\ called_s' = [called_s EXCEPT ![name] = "started"]
  /\ UNCHANGED <<subscribers, blocks, called_d>>

\* hub.script_completed(name, metrics)
ScriptCompleted ==
  /\ ops < MaxOps
  /\ \E name \in Names, metrics \in MetricsInputs : \E io \in IOs(TRUE) :
       /\ Commit(script_completed(Ctx, name, metrics, now, io),
                 "script_completed", name, TRUE, metrics)
       /\ called_s' = [called_s EXCEPT ![name] = "completed"]
  /\ UNCHANGED <<subscribers, blocks, called_d>>

\* hub.script_failed(name, error)
ScriptFailed ==
  /\ ops < MaxOps
  /\ \E name \in Names, error \in DirectErrors : \E io \in IOs(TRUE) :
       /\ Commit(script_failed(Ctx, name, error, now, io),
                 "script_failed", name, TRUE, error)
       /\ called_s' = [called_s EXCEPT ![name] = "failed"]
  /\ UNCHANGED <<subscribers, blocks, called_d>>

\* ------------------------------------------------------------------------
\* Actions: the context managers observe_directive and observe_script
\* ------------------------------------------------------------------------
Started(kind, c, name, tnow, io) ==
  IF kind = "directive" THEN directive_started(c, name, NoData, tnow, io)
  ELSE script_started(c, name, "", tnow, io)

Completed(kind, c, name, tnow, io) ==
  IF kind = "directive" THEN directive_completed(c, name, NoData, tnow, io)
  ELSE script_completed(c, name, NoData, tnow, io)

Failed(kind, c, name, error, tnow, io) ==
  IF kind = "directive" THEN directive_failed(c, name, error, tnow, io)
  ELSE script_failed(c, name, error, tnow, io)

\* the types of the events a call constructed
RECURSIVE TypesOf(_)
TypesOf(events) ==
  IF events = <<>> THEN <<>> ELSE <<Head(events).event_type>> \o TypesOf(Tail(events))

\* the lifecycle history of the names of one kind after a wrapper's call
Mark(kind, hist, name, call) ==
  [k \in Kinds |-> IF k = kind THEN [hist[k] EXCEPT ![name] = call] ELSE hist[k]]

History == [k \in Kinds |-> IF k = "directive" THEN called_d ELSE called_s]

\* the bare `raise` after the failed call c1: e propagates, unless the
\* failed call raised itself
Reraise(c1, error) == IF Raised(c1) THEN c1 ELSE [c1 EXCEPT !.raised = error]

\* `except Exception as e: hub.<kind>_failed(name, e); raise` as it would
\* be without the raise
ExceptClause_swallow(kind, c, name, error, tnow, io) ==
  Failed(kind, [c EXCEPT !.raised = NoError], name, error, tnow, io)

\* `except Exception as e: hub.<kind>_failed(name, e); raise`: the failed
\* call, then e is raised again unless the failed call raised itself
ExceptClause(kind, c, name, error, tnow, io) ==
  Reraise(Failed(kind, [c EXCEPT !.raised = NoError], name, error, tnow, io),
          error)

\* entering `with observe_directive(name)` / `with observe_script(name)`:
\* the started call runs before the try, so an exception it raises leaves
\* the with statement before the body is entered
ObserveEnter ==
  /\ ops < MaxOps
  /\ \E kind \in Kinds, name \in Names : \E io \in IOs(TRUE) :
       LET c == Started(kind, Ctx, name, now, io)
           h == Mark(kind, History, name, "started")
       IN /\ blocks[kind].pc # "body"
          /\ Commit(c, "observe_enter", name, TRUE, kind)
          /\ blocks' = [blocks EXCEPT ![kind] =
                          [ pc      |-> IF Raised(c) THEN "exited" ELSE "body",
                            name    |-> name,
                            calls   |-> <<"started">>,
                            events  |-> TypesOf(c.events),
                            body    |-> NoError,
                            handler |-> NoError,
                            out     |-> c.raised ]]
          /\ called_d' = h["directive"]
          /\ called_s' = h["script"]
  /\ UNCHANGED subscribers

\* the try block of a wrapper whose completed call ended as c1: an
\* Exception the call raised is handled by the except clause
Handled(kind, c1, name, tnow, io) ==
  IF Raised(c1) THEN ExceptClause(kind, c1, name, c1.raised, tnow, io) ELSE c1

\* leaving the with statement after the completed call ended as c1 and
\* the try block as c2
ExitAfterReturn(kind, c1, c2) ==
  LET b == blocks[kind]
      h == Mark(kind, History, b.name,
                IF Raised(c1) THEN "failed" ELSE "completed")
  IN /\ b.pc = "body"
     /\ Commit(c2, "observe_exit", b.name, TRUE, kind)
     /\ blocks' = [blocks EXCEPT ![kind] =
                     [b EXCEPT !.pc = "exited",
                               !.calls = @ \o (IF Raised(c1)
                                               THEN <<"completed", "failed">>
                                               ELSE <<"completed">>),
                               !.events = @ \o TypesOf(c2.events),
                               !.handler = c1.raised,
                               !.out = c2.raised]]
     /\ called_d' = h["directive"]
     /\ called_s' = h["script"]

TryBlock(kind, c1, io) ==
  ExitAfterReturn(kind, c1, Handled(kind, c1, blocks[kind].name, now, io))

\* the body returns: the completed call runs inside the try, so an
\* Exception it raises is handled by the except clause
ObserveBodyReturns ==
  /\ ops < MaxOps
  /\ \E kind \in Kinds : \E io1 \in IOs(TRUE), io2 \in IOs(TRUE) :
       TryBlock(kind, Completed(kind, Ctx, blocks[kind].name, now, io1), io2)
  /\ UNCHANGED subscribers

\* leaving the with statement after the except clause ended as c1
ExitAfterRaise(kind, error, c1) ==
  LET b == blocks[kind]
      h == Mark(kind, History, b.name, "failed")
  IN /\ b.pc = "body"
     /\ Commit(c1, "observe_exit", b.name, TRUE, kind)
     /\ blocks' = [blocks EXCEPT ![kind] =
                     [b EXCEPT !.pc = "exited",
                               !.calls = @ \o <<"failed">>,
                               !.events = @ \o TypesOf(c1.events),
                               !.body = error,
                               !.handler = IF c1.raised = error THEN NoError
                                           ELSE c1.raised,
                               !.out = c1.raised]]
     /\ called_d' = h["directive"]
     /\ called_s' = h["script"]

\* the body raises an Exception
ObserveBodyRaises ==
  /\ ops < MaxOps
  /\ \E kind \in Kinds, error \in Errors : \E io \in IOs(TRUE) :
       ExitAfterRaise(kind, error,
                  ExceptClause(kind, Ctx, blocks[kind].name, error, now, io))
  /\ UNCHANGED subscribers

\* what interrupts a body without being an Exception: Ctrl-C, sys.exit
Interruptions ==
  { [type |-> "KeyboardInterrupt", msg |-> <<>>],
    [type |-> "SystemExit", msg |-> <<"0">>] }

\* the body is interrupted: `except Exception` does not handle the
\* interruption, which leaves the with statement without any hub call
ObserveBodyInterrupted ==
  /\ ops < MaxOps
  /\ \E kind \in Kinds, error \in Interruptions :
       /\ blocks[kind].pc = "body"
       /\ Commit([Ctx EXCEPT !.raised = error], "observe_exit",
                 blocks[kind].name, TRUE, kind)
       /\ blocks' = [blocks EXCEPT ![kind] =
                       [@ EXCEPT !.pc = "exited", !.body = error, !.out = error]]
  /\ UNCHANGED <<subscribers, called_d, called_s>>

NextLifecycle ==
  \/ DirectiveStarted \/ DirectiveCompleted \/ DirectiveFailed
  \/ ScriptStarted \/ ScriptCompleted \/ ScriptFailed
  \/ ObserveEnter \/ ObserveBodyReturns \/ ObserveBodyRaises

\* a hub with the console sink on and no webhook endpoint configured
InitLifecycle == Init /\ console_enabled /\ ~webhook_url

SpecLifecycle == InitLifecycle /\ [][NextLifecycle]_vars

\* the with blocks alone, interruptions of the body included
NextBlocks ==
  \/ ObserveEnter \/ ObserveBodyReturns \/ ObserveBodyRaises
  \/ ObserveBodyInterrupted

SpecBlocks == InitLifecycle /\ [][NextBlocks]_vars

\* the lifecycle calls with the clock running, on a hub without file sink
NextTiming ==
  \/ Tick
  \/ DirectiveStarted \/ DirectiveCompleted \/ DirectiveFailed
  \/ ScriptStarted \/ ScriptCompleted \/ ScriptFailed

InitTiming == Init /\ console_enabled /\ ~file_enabled /\ ~webhook_url

SpecTiming == InitTiming /\ [][NextTiming]_vars

\* ------------------------------------------------------------------------
\* Actions: an AgentObserver, and the units of work against the clock
\* ------------------------------------------------------------------------
\* observer.script_started()
ObserverStarted ==
  /\ ops < MaxOps
  /\ \E io \in IOs(TRUE) :
       Commit(observer_script_started(Ctx, "a", NoData, now, io.net),
              "observer_started", "a", TRUE, 0)
  /\ UNCHANGED <<subscribers, blocks, called_d, called_s>>

\* observer.script_completed()
ObserverCompleted ==
  /\ ops < MaxOps
  /\ \E io \in IOs(TRUE) :
       Commit(observer_script_completed(Ctx, "a", NoData, now, io.net),
              "observer_completed", "a", TRUE, 0)
  /\ UNCHANGED <<subscribers, blocks, called_d, called_s>>

\* observer.script_failed(error)
ObserverFailed ==
  /\ ops < MaxOps
  /\ \E error \in DirectErrors : \E io \in IOs(TRUE) :
       Commit(observer_script_failed(Ctx, "a", error, now, io.net),
              "observer_failed", "a", TRUE, error)
  /\ UNCHANGED <<subscribers, blocks, called_d, called_s>>

\* a call made while the run has calls left
Timed(call) == ops < MaxTimedOps /\ call

NextDuration ==
  \/ Tick
  \/ Timed(DirectiveStarted) \/ Timed(DirectiveCompleted) \/ Timed(DirectiveFailed)
  \/ Timed(ScriptStarted) \/ Timed(ScriptCompleted) \/ Timed(ScriptFailed)
  \/ Timed(ObserverStarted) \/ Timed(ObserverCompleted) \/ Timed(ObserverFailed)

SpecDuration == InitTiming /\ [][NextDuration]_vars

\* ------------------------------------------------------------------------
\* Actions: direct calls on a SlackNotifier
\* ------------------------------------------------------------------------
SendFields == {[k \in {} |-> <<>>], [k \in {"Script"} |-> <<"a">>]}

\* notifier.send(message, level, title, fields)
Send ==
  /\ ops < MaxOps
  /\ \E message \in {Hello, LongText}, level \in Levels, fields \in SendFields :
       \E io \in IOs(TRUE) :
         Commit(send(Ctx, message, level, "title", fields, io.net),
                "send", "", TRUE, io.net)
  /\ UNCHANGED <<subscribers, blocks, called_d, called_s>>

NextNotifier == Send

SpecNotifier == Init /\ [][NextNotifier]_vars

\* ------------------------------------------------------------------------
\* Actions: direct calls on a MetricsCollector
\* ------------------------------------------------------------------------
MetricNames == {<<"lat">>, <<"a", "rows">>}

MetricValues == {-3, 0, 4}

Amounts == {-1, 0, 2}

\* metrics.record(name, value)
Record ==
  /\ ops < MaxMetricOps
  /\ \E name \in MetricNames, value \in MetricValues :
       Commit(record(Ctx, name, value), "record", name, FALSE, value)
  /\ UNCHANGED <<subscribers, blocks, called_d, called_s>>

\* metrics.increment(name, amount)
Increment ==
  /\ ops < MaxMetricOps
  /\ \E name \in MetricNames, amount \in Amounts :
       Commit(increment(Ctx, name, amount), "increment", name, FALSE, amount)
  /\ UNCHANGED <<subscribers, blocks, called_d, called_s>>

\* metrics.reset()
Reset ==
  /\ ops < MaxMetricOps
  /\ Commit(reset(Ctx), "reset", <<>>, FALSE, 0)
  /\ UNCHANGED <<subscribers, blocks, called_d, called_s>>

\* a read: nothing but the returned value changes
Returned(op, name, result) ==
  /\ last' = [NoCall EXCEPT !.op = op, !.name = name, !.result = result, !.at = now]
  /\ UNCHANGED <<config, subscribers, _active_directives, _active_scripts,
                 _metrics, _counters, log_files, start_time, now, ticks, ops,
                 io_failures, blocks, called_d, called_s, seen, counted, logged,
                 sync>>

\* metrics.get_summary(name)
GetSummary ==
  \E name \in MetricNames :
    Returned("get_summary", name, get_summary(_metrics, name))

\* metrics.get_counter(name)
GetCounter ==
  \E name \in MetricNames :
    Returned("get_counter", name, get_counter(_counters, name))

NextMetrics == Record \/ Increment \/ Reset \/ GetSummary \/ GetCounter

\* the configuration of an environment that sets none of the options
InitMetrics ==
  Init /\ console_enabled /\ file_enabled /\ slack_enabled /\ ~webhook_url

SpecMetrics == InitMetrics /\ [][NextMetrics]_vars

\* ------------------------------------------------------------------------
\* Actions: threads calling a MetricsCollector, one lock acquisition a step
\* ------------------------------------------------------------------------
\* everything but the threads, the locks and the record of the last call
data_vars ==
  << config, subscribers, _active_directives, _active_scripts, _metrics,
     _counters, log_files, start_time, now, ticks, ops, io_failures, blocks,
     called_d, called_s, seen, counted, logged >>

\* record and increment call nothing inside their with block: once the lock
\* is free the whole call is one step
LockedRecord ==
  /\ metrics_lock = "free"
  /\ \E t \in Threads : pc[t] = "ready"
  /\ Record

LockedIncrement ==
  /\ metrics_lock = "free"
  /\ \E t \in Threads : pc[t] = "ready"
  /\ Increment

\* a thread calls get_summary(name) and arrives at `with self._lock`
CallGetSummary(t) ==
  /\ pc[t] = "ready"
  /\ \E name \in MetricNames :
       frame' = [frame EXCEPT ![t] = [NoFrame EXCEPT !.caller = "thread",
                                                     !.name = name]]
  /\ pc' = [pc EXCEPT ![t] = "get_summary"]
  /\ UNCHANGED <<data_vars, last, metrics_lock, _instance, _initialized, hub_lock>>

\* the with block of get_summary: entered only while the lock is free,
\* whoever called; the summary goes to the caller and the lock is released
GetSummaryLocked(t) ==
  /\ pc[t] = "get_summary"
  /\ metrics_lock = "free"
  /\ LET name == frame[t].name
         summary == get_summary(_metrics, name)
     IN IF frame[t].caller = "thread"
        THEN /\ pc' = [pc EXCEPT ![t] = "ready"]
             /\ frame' = [frame EXCEPT ![t] = NoFrame]
             /\ last' = [NoCall EXCEPT !.op = "get_summary", !.name = name,
                                       !.result = summary, !.at = now]
        ELSE /\ pc' = [pc EXCEPT ![t] = "get_all"]
             /\ frame' = [frame EXCEPT ![t].acc =
                            [k \in DOMAIN @ \cup {name} |->
                               IF k = name THEN summary ELSE @[k]]]
             /\ UNCHANGED last
  /\ UNCHANGED <<data_vars, metrics_lock, _instance, _initialized, hub_lock>>

\* a thread calls get_all() and enters its with block: it now holds the lock
\* and starts the comprehension over the keys of _metrics
CallGetAll(t) ==
  /\ pc[t] = "ready"
  /\ metrics_lock = "free"
  /\ metrics_lock' = t
  /\ pc' = [pc EXCEPT ![t] = "get_all"]
  /\ frame' = [frame EXCEPT ![t] = [NoFrame EXCEPT !.caller = "get_all",
                                                   !.pending = DOMAIN _metrics]]
  /\ UNCHANGED <<data_vars, last, _instance, _initialized, hub_lock>>

\* the comprehension takes the next key k and calls self.get_summary(k)
GetAllNext(t) ==
  /\ pc[t] = "get_all"
  /\ frame[t].pending # {}
  /\ \E k \in frame[t].pending :
       frame' = [frame EXCEPT ![t].name = k, ![t].pending = @ \ {k}]
  /\ pc' = [pc EXCEPT ![t] = "get_summary"]
  /\ UNCHANGED <<data_vars, last, metrics_lock, _instance, _initialized, hub_lock>>

\* no key is left: the snapshot is returned and the lock released
GetAllReturn(t) ==
  /\ pc[t] = "get_all"
  /\ frame[t].pending = {}
  /\ metrics_lock' = "free"
  /\ pc' = [pc EXCEPT ![t] = "ready"]
  /\ frame' = [frame EXCEPT ![t] = NoFrame]
  /\ last' = [NoCall EXCEPT !.op = "get_all", !.at = now,
                            !.result = [metrics |-> frame[t].acc,
                                        counters |-> _counters]]
  /\ UNCHANGED <<data_vars, _instance, _initialized, hub_lock>>

NextSnapshot ==
  \/ LockedRecord
  \/ LockedIncrement
  \/ \E t \in Threads : CallGetSummary(t)
  \/ \E t \in Threads : GetSummaryLocked(t)
  \/ \E t \in Threads : CallGetAll(t)
  \/ \E t \in Threads : GetAllNext(t)
  \/ \E t \in Threads : GetAllReturn(t)

SpecSnapshot == InitMetrics /\ [][NextSnapshot]_vars

\* ------------------------------------------------------------------------
\* Actions: direct calls on an EventLogger
\* ------------------------------------------------------------------------
\* a message with the two characters json escapes
Quoted == <<"q", "\"", "\\", "n">>

\* the events handed to log, created at the time tnow
LogEvents(tnow) ==
  { Event("task_checkpoint", "a", Quoted, [k \in {"note"} |-> StrV(Quoted)], "WARNING", tnow),
    Event("system_health", "a", Hello, [k \in {"rows"} |-> NumV(-12)], "INFO", tnow),
    Event("task_checkpoint", "b", Hello, NoData, "INFO", tnow),
    Event("system_health", "b", Hello, [k \in {"cause"} |-> ObjV], "ERROR", tnow) }

\* the arguments of the get_events calls
DateArgs == {NoTime, 0}

TypeArgs == {NoArg, Arg("task_checkpoint")}

SourceArgs == {NoArg, Arg(""), Arg("a")}

\* logger.log(event)
Log ==
  /\ ops < MaxLogOps
  /\ \E event \in LogEvents(now) :
       \E fileOk \in (IF io_failures < MaxIOFailures THEN BOOLEAN ELSE {TRUE}) :
         Commit(log(Ctx, event, now, fileOk), "log", event.source, FALSE, event)
  /\ UNCHANGED <<subscribers, blocks, called_d, called_s>>

\* logger.get_events(date, event_type, source)
GetEvents ==
  \E date \in DateArgs, event_type \in TypeArgs, source \in SourceArgs :
    Returned("get_events",
             [date |-> date, event_type |-> event_type, source |-> source],
             get_events(log_files, date, event_type, source, now))

\* midnight passes
NextDay ==
  /\ ticks < MaxTicks
  /\ now' = now + SecondsPerDay
  /\ ticks' = ticks + 1
  /\ UNCHANGED <<config, subscribers, _active_directives, _active_scripts,
                 _metrics, _counters, log_files, start_time, ops, io_failures,
                 blocks, called_d, called_s, seen, counted, logged, last, sync>>

NextLogger == Log \/ GetEvents \/ NextDay

SpecLogger == InitMetrics /\ [][NextLogger]_vars

\* the times at which an event handed to log at tnow may have been
\* constructed: Event.__init__ reads the clock, log reads it again
CreationTimes(tnow) == {tnow} \cup (IF tnow > 0 THEN {tnow - 1} ELSE {})

\* logger.log(event) of an event constructed now or one second ago
LogCreated ==
  /\ ops < MaxLogOps
  /\ \E created \in CreationTimes(now) : \E event \in LogEvents(created) :
       \E fileOk \in (IF io_failures < MaxIOFailures THEN BOOLEAN ELSE {TRUE}) :
         Commit(log(Ctx, event, now, fileOk), "log", event.source, FALSE, event)
  /\ UNCHANGED <<subscribers, blocks, called_d, called_s>>

NextMidnight == LogCreated \/ GetEvents \/ NextDay

SpecMidnight == InitMetrics /\ [][NextMidnight]_vars

\* ------------------------------------------------------------------------
\* Actions: threads making their first access to the hub, one statement of
\* __new__ and __init__ a step
\* ------------------------------------------------------------------------
\* no hub yet: the process has just started
InitSingleton ==
  /\ InitData
  /\ console_enabled /\ ~file_enabled /\ ~slack_enabled /\ ~webhook_url
  /\ metrics_lock = "free"
  /\ _instance = 0
  /\ _initialized = "unset"
  /\ hub_lock = "free"
  /\ pc = [t \in Threads |-> "start"]
  /\ frame = [t \in Threads |-> NoFrame]

\* __new__: the first `if cls._instance is None`
NewFirstCheck(t) ==
  /\ pc[t] = "start"
  /\ pc' = [pc EXCEPT ![t] = IF _instance = 0 THEN "new_lock" ELSE "new_return"]
  /\ UNCHANGED <<data_vars, last, metrics_lock, _instance, _initialized,
                 hub_lock, frame>>

\* __new__: `with cls._lock`
NewLock(t) ==
  /\ pc[t] = "new_lock"
  /\ hub_lock = "free"
  /\ hub_lock' = t
  /\ pc' = [pc EXCEPT ![t] = "new_check"]
  /\ UNCHANGED <<data_vars, last, metrics_lock, _instance, _initialized, frame>>

\* __new__: the second `if cls._instance is None`; when it fails the with
\* block ends
NewSecondCheck(t) ==
  /\ pc[t] = "new_check"
  /\ IF _instance = 0
     THEN pc' = [pc EXCEPT ![t] = "new_create"] /\ UNCHANGED hub_lock
     ELSE pc' = [pc EXCEPT ![t] = "new_return"] /\ hub_lock' = "free"
  /\ UNCHANGED <<data_vars, last, metrics_lock, _instance, _initialized, frame>>

\* __new__: `cls._instance = super().__new__(cls)`, an object without
\* attributes
NewCreate(t) ==
  /\ pc[t] = "new_create"
  /\ _instance' = _instance + 1
  /\ _initialized' = "unset"
  /\ pc' = [pc EXCEPT ![t] = "new_mark"]
  /\ UNCHANGED <<data_vars, last, metrics_lock, hub_lock, frame>>

\* __new__: `cls._instance._initialized = False`, and the with block ends
NewMark(t) ==
  /\ pc[t] = "new_mark"
  /\ _initialized' = "false"
  /\ hub_lock' = "free"
  /\ pc' = [pc EXCEPT ![t] = "new_return"]
  /\ UNCHANGED <<data_vars, last, metrics_lock, _instance, frame>>

\* __new__: `return cls._instance`
NewReturn(t) ==
  /\ pc[t] = "new_return"
  /\ frame' = [frame EXCEPT ![t].self = _instance]
  /\ pc' = [pc EXCEPT ![t] = "init_check"]
  /\ UNCHANGED <<data_vars, last, metrics_lock, _instance, _initialized, hub_lock>>

\* __init__: `if self._initialized: return`; the attribute may not be set yet
InitCheck(t) ==
  /\ pc[t] = "init_check"
  /\ pc' = [pc EXCEPT ![t] = CASE _initialized = "unset" -> "raised"
                                [] _initialized = "true" -> "ready"
                                [] OTHER -> "init_body"]
  /\ UNCHANGED <<data_vars, last, metrics_lock, _instance, _initialized,
                 hub_lock, frame>>

\* __init__: the assignments of a fresh notifier, logger, collector,
\* subscriber list and active maps; the environment gives the same flags
InitBody(t) ==
  /\ pc[t] = "init_body"
  /\ subscribers' = <<>>
  /\ _metrics' = [k \in {} |-> <<>>]
  /\ _counters' = [k \in {} |-> 0]
  /\ metrics_lock' = "free"
  /\ _active_directives' = [k \in {} |-> 0]
  /\ _active_scripts' = [k \in {} |-> 0]
  /\ pc' = [pc EXCEPT ![t] = "init_mark"]
  /\ UNCHANGED <<config, log_files, start_time, now, ticks, ops, io_failures,
                 blocks, called_d, called_s, seen, counted, logged, last,
                 _instance, _initialized, hub_lock, frame>>

\* __init__: `self._initialized = True`, and the accessor returns
InitMark(t) ==
  /\ pc[t] = "init_mark"
  /\ _initialized' = "true"
  /\ pc' = [pc EXCEPT ![t] = "ready"]
  /\ UNCHANGED <<data_vars, last, metrics_lock, _instance, hub_lock, frame>>

\* a call on the hub by a thread whose accessor has returned
Using(call) ==
  /\ ops < MaxThreadOps
  /\ \E t \in Threads : pc[t] = "ready"
  /\ call

NextSingleton ==
  \/ \E t \in Threads : NewFirstCheck(t)
  \/ \E t \in Threads : NewLock(t)
  \/ \E t \in Threads : NewSecondCheck(t)
  \/ \E t \in Threads : NewCreate(t)
  \/ \E t \in Threads : NewMark(t)
  \/ \E t \in Threads : NewReturn(t)
  \/ \E t \in Threads : InitCheck(t)
  \/ \E t \in Threads : InitBody(t)
  \/ \E t \in Threads : InitMark(t)
  \/ Using(Subscribe)
  \/ Using(Record)
  \/ Using(ScriptStarted)

SpecSingleton == InitSingleton /\ [][NextSingleton]_vars

\* ------------------------------------------------------------------------
\* Actions: threads calling record, increment, reset and the two reads of
\* one MetricsCollector, one statement a step
\* ------------------------------------------------------------------------
\* a thread calls record(name, value), increment(name, amount) or reset()
\* and arrives at `with self._lock`
CallWrite(t) ==
  /\ pc[t] = "ready"
  /\ ops < MaxThreadOps
  /\ ops' = ops + 1
  /\ \/ \E name \in MetricNames, value \in MetricValues :
          frame' = [frame EXCEPT ![t] = [NoFrame EXCEPT !.caller = "record",
                                                        !.name = name,
                                                        !.acc = <<value>>]]
     \/ \E name \in MetricNames, amount \in Amounts :
          frame' = [frame EXCEPT ![t] = [NoFrame EXCEPT !.caller = "increment",
                                                        !.name = name,
                                                        !.acc = <<amount>>]]
     \/ frame' = [frame EXCEPT ![t] = [NoFrame EXCEPT !.caller = "reset"]]
  /\ pc' = [pc EXCEPT ![t] = "acquire"]
  /\ UNCHANGED <<config, subscribers, _active_directives, _active_scripts,
                 _metrics, _counters, log_files, start_time, now, ticks,
                 io_failures, blocks, called_d, called_s, seen, counted, logged,
                 last, metrics_lock, _instance, _initialized, hub_lock>>

\* the with statement as it would be if it did not wait for the lock
Acquire_unguarded(t) ==
  /\ pc[t] = "acquire"
  /\ metrics_lock' = t
  /\ pc' = [pc EXCEPT ![t] = frame[t].caller]
  /\ UNCHANGED <<data_vars, last, _instance, _initialized, hub_lock, frame>>

\* `with self._lock`: the thread goes on only once the lock is free
Acquire(t) ==
  /\ pc[t] = "acquire"
  /\ metrics_lock = "free"
  /\ metrics_lock' = t
  /\ pc' = [pc EXCEPT ![t] = frame[t].caller]
  /\ UNCHANGED <<data_vars, last, _instance, _initialized, hub_lock, frame>>

\* the with block ends: the lock is released and the call returns
Release(t, op) ==
  /\ metrics_lock' = "free"
  /\ pc' = [pc EXCEPT ![t] = "ready"]
  /\ frame' = [frame EXCEPT ![t] = NoFrame]
  /\ last' = [NoCall EXCEPT !.op = op, !.name = frame[t].name, !.at = now]
  /\ UNCHANGED <<config, subscribers, _active_directives, _active_scripts,
                 log_files, start_time, now, ticks, ops, io_failures, blocks,
                 called_d, called_s, logged, _instance, _initialized, hub_lock>>

\* record: `if name not in self._metrics: self._metrics[name] = []`
RecordEnsure(t) ==
  /\ pc[t] = "record"
  /\ _metrics' = IF frame[t].name \in DOMAIN _metrics THEN _metrics
                 ELSE Put(_metrics, frame[t].name, <<>>)
  /\ pc' = [pc EXCEPT ![t] = "record_append"]
  /\ UNCHANGED <<config, subscribers, _active_directives, _active_scripts,
                 _counters, log_files, start_time, now, ticks, ops, io_failures,
                 blocks, called_d, called_s, seen, counted, logged, last, sync_rest,
                 frame>>

\* record: `self._metrics[name].append(value)`
RecordAppend(t) ==
  /\ pc[t] = "record_append"
  /\ _metrics' = Put(_metrics, frame[t].name,
                     Append(_metrics[frame[t].name], frame[t].acc[1]))
  /\ seen' = Tally(seen, <<<<frame[t].name, frame[t].acc[1]>>>>)
  /\ Release(t, "record")
  /\ UNCHANGED <<_counters, counted>>

\* increment: the right-hand side `self._counters.get(name, 0) + amount`
IncrementRead(t) ==
  /\ pc[t] = "increment"
  /\ frame' = [frame EXCEPT ![t].acc =
                 <<@[1], get_counter(_counters, frame[t].name) + @[1]>>]
  /\ pc' = [pc EXCEPT ![t] = "increment_write"]
  /\ UNCHANGED <<data_vars, last, sync_rest>>

\* increment: the assignment `self._counters[name] = ...`
IncrementWrite(t) ==
  /\ pc[t] = "increment_write"
  /\ _counters' = Put(_counters, frame[t].name, frame[t].acc[2])
  /\ counted' = Count(counted, <<<<frame[t].name, frame[t].acc[1]>>>>)
  /\ Release(t, "increment")
  /\ UNCHANGED <<_metrics, seen>>

\* reset: `self._metrics.clear()`
ResetMetrics(t) ==
  /\ pc[t] = "reset"
  /\ _metrics' = [k \in {} |-> <<>>]
  /\ pc' = [pc EXCEPT ![t] = "reset_counters"]
  /\ UNCHANGED <<config, subscribers, _active_directives, _active_scripts,
                 _counters, log_files, start_time, now, ticks, ops, io_failures,
                 blocks, called_d, called_s, seen, counted, logged, last, sync_rest,
                 frame>>

\* reset: `self._counters.clear()`
ResetCounters(t) ==
  /\ pc[t] = "reset_counters"
  /\ _counters' = [k \in {} |-> 0]
  /\ seen' = NoTally
  /\ counted' = NoCount
  /\ Release(t, "reset")
  /\ UNCHANGED _metrics

\* get_summary(name) and get_counter(name): the with block reads and returns
ReadLocked(t) ==
  /\ pc[t] = "ready"
  /\ metrics_lock = "free"
  /\ \/ GetSummary
     \/ GetCounter

NextCollector ==
  \/ \E t \in Threads : CallWrite(t)
  \/ \E t \in Threads : Acquire(t)
  \/ \E t \in Threads : RecordEnsure(t)
  \/ \E t \in Threads : RecordAppend(t)
  \/ \E t \in Threads : IncrementRead(t)
  \/ \E t \in Threads : IncrementWrite(t)
  \/ \E t \in Threads : ResetMetrics(t)
  \/ \E t \in Threads : ResetCounters(t)
  \/ \E t \in Threads : ReadLocked(t)

SpecCollector == InitMetrics /\ [][NextCollector]_vars

\* ------------------------------------------------------------------------
\* Actions: the module-level helpers emit_info, emit_warning, emit_error
\* ------------------------------------------------------------------------
\* the keyword arguments of a helper call: none, or note="ok"
HelperData == {NoData, [k \in {"note"} |-> StrV(ShortText)]}

EmitInfo ==
  /\ ops < MaxOps
  /\ \E source \in Names, data \in HelperData : \E io \in IOs(TRUE) :
       Commit(emit_info(Ctx, source, Hello, data, now, io),
              "emit_info", source, TRUE, data)
  /\ UNCHANGED <<subscribers, blocks, called_d, called_s>>

EmitWarning ==
  /\ ops < MaxOps
  /\ \E source \in Names, data \in HelperData : \E io \in IOs(TRUE) :
       Commit(emit_warning(Ctx, source, Hello, data, now, io),
              "emit_warning", source, TRUE, data)
  /\ UNCHANGED <<subscribers, blocks, called_d, called_s>>

EmitError ==
  /\ ops < MaxOps
  /\ \E source \in Names, data \in HelperData : \E io \in IOs(TRUE) :
       Commit(emit_error(Ctx, source, Hello, data, now, io),
              "emit_error", source, TRUE, data)
  /\ UNCHANGED <<subscribers, blocks, called_d, called_s>>

\* the helpers and the script lifecycle calls on one hub
NextHelpers ==
  \/ EmitInfo \/ EmitWarning \/ EmitError
  \/ ScriptStarted \/ ScriptFailed

SpecHelpers == Init /\ [][NextHelpers]_vars

\* ------------------------------------------------------------------------
\* Actions: calls of a function decorated with observe("a")
\* ------------------------------------------------------------------------
ObservedCall ==
  /\ ops < MaxOps
  /\ \E outcome \in FuncOutcomes :
       \E net1 \in {io.net : io \in IOs(TRUE)}, net2 \in {io.net : io \in IOs(TRUE)} :
         Commit(wrapper(Ctx, "a", outcome, now, net1, net2),
                "observed_call", "a", TRUE, outcome)
  /\ UNCHANGED <<subscribers, blocks, called_d, called_s>>

NextDecorator == ObservedCall

SpecDecorator == Init /\ [][NextDecorator]_vars

\* ------------------------------------------------------------------------
\* Actions: every method of a MetricsCollector, the writes as whole calls
\* ------------------------------------------------------------------------
\* reset calls nothing inside its with block either
LockedReset ==
  /\ metrics_lock = "free"
  /\ \E t \in Threads : pc[t] = "ready"
  /\ Reset

NextRetention ==
  \/ Using(LockedRecord)
  \/ Using(LockedIncrement)
  \/ Using(LockedReset)
  \/ \E t \in Threads : ReadLocked(t)
  \/ \E t \in Threads : CallGetSummary(t)
  \/ \E t \in Threads : GetSummaryLocked(t)
  \/ \E t \in Threads : CallGetAll(t)
  \/ \E t \in Threads : GetAllNext(t)
  \/ \E t \in Threads : GetAllReturn(t)

SpecRetention == InitMetrics /\ [][NextRetention]_vars

\* ------------------------------------------------------------------------
\* Actions: two threads (or two nested blocks), each running one unit of
\* work named "a": a started call, later a completed or failed call
\* ------------------------------------------------------------------------
\* thread t calls hub.<kind>_started("a")
UnitStarted(t) ==
  /\ pc[t] = "ready"
  /\ \E kind \in Kinds : \E io \in IOs(TRUE) :
       /\ Effect(Started(kind, Ctx, "a", now, io), "unit_started", "a", TRUE, kind)
       /\ frame' = [frame EXCEPT ![t] =
                      [NoFrame EXCEPT !.caller = kind,
                                      !.acc = [ start_op |-> ops, start_at |-> now,
                                                raised |-> last'.raised ]]]
       /\ called_d' = Mark(kind, History, "a", "started")["directive"]
       /\ called_s' = Mark(kind, History, "a", "started")["script"]
  /\ pc' = [pc EXCEPT ![t] = "in_flight"]
  /\ UNCHANGED <<subscribers, blocks, metrics_lock, _instance, _initialized,
                 hub_lock>>

\* thread t calls hub.<kind>_completed("a") or hub.<kind>_failed("a", error)
UnitEnded(t) ==
  /\ pc[t] = "in_flight"
  /\ \E outcome \in {"completed", "failed"} : \E io \in IOs(TRUE) :
       /\ Effect(IF outcome = "completed"
                 THEN Completed(frame[t].caller, Ctx, "a", now, io)
                 ELSE Failed(frame[t].caller, Ctx, "a",
                             [type |-> "KeyError", msg |-> <<"k">>], now, io),
                 "unit_ended", "a", TRUE, frame[t].caller)
       /\ frame' = [frame EXCEPT ![t].acc =
                      [ start_op |-> @.start_op, start_at |-> @.start_at,
                        started_raised |-> @.raised,
                        end_op |-> ops, end_at |-> now,
                        duration |-> last'.events[1].data["duration"].s,
                        raised |-> last'.raised ]]
       /\ called_d' = Mark(frame[t].caller, History, "a", outcome)["directive"]
       /\ called_s' = Mark(frame[t].caller, History, "a", outcome)["script"]
  /\ pc' = [pc EXCEPT ![t] = "ended"]
  /\ UNCHANGED <<subscribers, blocks, metrics_lock, _instance, _initialized,
                 hub_lock>>

NextOverlap ==
  \/ Tick
  \/ \E t \in Threads : UnitStarted(t)
  \/ \E t \in Threads : UnitEnded(t)

SpecOverlap == InitTiming /\ [][NextOverlap]_vars

\* ------------------------------------------------------------------------
\* Actions: subscribers, direct emits and lifecycle calls on a hub that
\* writes the log file
\* ------------------------------------------------------------------------
NextAppend ==
  \/ Timed(Subscribe) \/ Timed(Emit) \/ Timed(Learning) \/ Timed(Progress)
  \/ Timed(DirectiveStarted) \/ Timed(DirectiveCompleted) \/ Timed(DirectiveFailed)
  \/ Timed(ScriptStarted) \/ Timed(ScriptCompleted) \/ Timed(ScriptFailed)

InitAppend == Init /\ console_enabled /\ file_enabled /\ ~webhook_url

SpecAppend == InitAppend /\ [][NextAppend]_vars

\* ------------------------------------------------------------------------
\* Claims about emit, checked under Spec
\* ------------------------------------------------------------------------
\* the event the last call constructed
LastEvent == last.events[Len(last.events)]

\* the last call ran emit with the webhook wanted, enabled and configured,
\* and its file append did not fail
WebhookEmit ==
  /\ last.op \in {"emit", "learning"}
  /\ last.notify_slack /\ slack_enabled /\ webhook_url
  /\ last.fileOk

ConsoleReceived ==
  console_enabled =>
    /\ Len(last.console) >= 1
    /\ last.console[1] = Line("event", LastEvent.level, LastEvent.source, LastEvent.message)

FileReceived == file_enabled => last.appended = <<to_dict(LastEvent)>>

\* C1: an emit with notify_slack=true on a hub whose webhook sink is enabled
\* and configured returns the constructed Event and raises nothing.
C1_EmitNeverRaises ==
  WebhookEmit => (last.raised = NoError /\ last.ret = LastEvent)

\* C2: such an emit results in exactly one SlackNotifier.send invocation
\* carrying the event's message and level, the title of the event type and
\* the fields Source plus every data entry as text cut to 100 characters.
C2_EmitSendsOnce ==
  WebhookEmit =>
    last.sends = << [ message |-> LastEvent.message,
                      level   |-> LastEvent.level,
                      title   |-> title_map[LastEvent.event_type],
                      fields  |-> SlackFields(LastEvent) ] >>

\* C3: an emit call made with notify_slack=false performs no webhook
\* request and no SlackNotifier.send invocation, in every configuration.
C3_NoSendWithoutNotify ==
  (last.op = "emit" /\ ~last.notify_slack) =>
    (last.sends = <<>> /\ last.requests = 0)

C3_Witness ==
  /\ last.op = "emit" /\ ~last.notify_slack
  /\ slack_enabled /\ webhook_url
  /\ last.ret = LastEvent

\* C4 as stated: progress never causes a webhook send and the TASK_PROGRESS
\* event reaches the console, the file and every subscriber.
C4_ProgressReachesAllSinks ==
  last.op = "progress" =>
    /\ last.sends = <<>> /\ last.requests = 0
    /\ LastEvent.event_type = "task_progress"
    /\ ConsoleReceived
    /\ FileReceived
    /\ last.invoked = subscribers

\* C4 amended: progress never causes a webhook send, for any percent; the
\* TASK_PROGRESS event reaches the console when enabled and, unless the
\* file append fails, the file when enabled and every subscriber.
C4_ProgressNeverSends ==
  last.op = "progress" =>
    /\ last.sends = <<>> /\ last.requests = 0
    /\ LastEvent.event_type = "task_progress"
    /\ ConsoleReceived
    /\ last.fileOk => (FileReceived /\ last.invoked = subscribers)
    /\ ~last.fileOk => last.raised.type = "OSError"

C4_Witness ==
  /\ last.op = "progress" /\ last.result # NoPercent
  /\ slack_enabled /\ webhook_url /\ console_enabled /\ file_enabled
  /\ Len(subscribers) >= 1
  /\ last.invoked = subscribers
  /\ last.appended # <<>>

\* C5: every emit invokes every registered subscriber once, in registration
\* order, whichever of them raise, returns the Event, and the console, file
\* and webhook sinks enabled for the call have received the event.
C5_SubscribersIsolated ==
  ( /\ last.op \in {"emit", "learning", "progress"} /\ last.fileOk
    /\ \E i \in 1..Len(subscribers) : subscribers[i] = "bad" ) =>
    /\ last.invoked = subscribers
    /\ last.raised = NoError /\ last.ret = LastEvent
    /\ ConsoleReceived
    /\ FileReceived
    /\ (last.notify_slack /\ slack_enabled) => Len(last.sends) = 1

\* ------------------------------------------------------------------------
\* Claims about the lifecycle calls and the context managers, checked
\* under SpecLifecycle
\* ------------------------------------------------------------------------
InFlightMatchesMap ==
  \A n \in Names :
    /\ n \in DOMAIN _active_directives <=> called_d[n] = "started"
    /\ n \in DOMAIN _active_scripts <=> called_s[n] = "started"

RemovedOnlyByTerminalCall ==
  \A n \in Names :
    /\ (n \in DOMAIN _active_directives /\ n \notin DOMAIN _active_directives') =>
         /\ last'.name = n
         /\ \/ last'.op \in {"directive_completed", "directive_failed"}
            \/ last'.op = "observe_exit" /\ last'.result = "directive"
    /\ (n \in DOMAIN _active_scripts /\ n \notin DOMAIN _active_scripts') =>
         /\ last'.name = n
         /\ \/ last'.op \in {"script_completed", "script_failed"}
            \/ last'.op = "observe_exit" /\ last'.result = "script"

\* C6: a name is in the active-directives (active-scripts) map exactly when
\* the last lifecycle call for it, direct or through a context manager, was
\* started, and a name leaves a map only in a completed or failed call for
\* that name.
C6_ActiveMapTracksInFlight ==
  [](InFlightMatchesMap) /\ [][RemovedOnlyByTerminalCall]_vars

C6_Witness ==
  /\ \E n \in Names : n \in DOMAIN _active_scripts
  /\ \E n \in Names : called_d[n] = "failed" /\ n \notin DOMAIN _active_directives
  /\ blocks["script"].pc = "body"

TerminalOps ==
  {"directive_completed", "directive_failed", "script_completed", "script_failed"}

\* the map a terminal call looks its name up in
MapOf(op) ==
  IF op \in {"directive_completed", "directive_failed"} THEN _active_directives
  ELSE _active_scripts

\* C7: a completed or failed call for a name that is not in its active map
\* raises nothing, emits exactly one terminal event of the matching type
\* with duration "unknown", and leaves the active maps unchanged.
C7_UnstartedTerminalCall ==
  [][ ( /\ last'.op \in TerminalOps
        /\ last'.name \notin DOMAIN MapOf(last'.op)
        /\ last'.fileOk ) =>
      ( /\ last'.raised = NoError
        /\ Len(last'.events) = 1
        /\ last'.events[1].event_type = last'.op
        /\ last'.events[1].data["duration"] = StrV(Unknown)
        /\ _active_directives' = _active_directives
        /\ _active_scripts' = _active_scripts ) ]_vars

StartedType(kind) == IF kind = "directive" THEN "directive_started" ELSE "script_started"

FailedType(kind) == IF kind = "directive" THEN "directive_failed" ELSE "script_failed"

\* a with block whose body raised has been left
BodyRaised(kind) == blocks[kind].pc = "exited" /\ blocks[kind].body # NoError

LastError ==
  IF last.op = "observe_exit"
  THEN (IF blocks[last.result].body # NoError THEN blocks[last.result].body
        ELSE blocks[last.result].handler)
  ELSE last.result

\* C9: the failed event of a directive and of a script carries both the
\* error's type name and the error's message in its data.
C9_FailedEventCarriesTypeAndMessage ==
  (last.op \in {"directive_failed", "script_failed", "observe_exit"}) =>
    \A i \in 1..Len(last.events) :
      last.events[i].event_type \in {"directive_failed", "script_failed"} =>
        /\ {"error", "error_type"} \subseteq DOMAIN last.events[i].data
        /\ last.events[i].data["error"] = StrV(LastError.msg)
        /\ last.events[i].data["error_type"] = StrV(TypeName(LastError))

\* ------------------------------------------------------------------------
\* Claims about MetricsCollector, checked under SpecMetrics
\* ------------------------------------------------------------------------
\* C10: get_summary(name) returns the number of record calls for the name
\* since the last reset, the sum of their values, the smallest and largest
\* of them and sum/count; for a name without a value it returns the empty
\* result.
C10_SummaryMatchesRecords ==
  last.op = "get_summary" =>
    IF last.name \in DOMAIN seen
    THEN last.result = [ count |-> seen[last.name].n,
                         sum   |-> seen[last.name].total,
                         avg   |-> Quotient(seen[last.name].total, seen[last.name].n),
                         min   |-> seen[last.name].lo,
                         max   |-> seen[last.name].hi ]
    ELSE last.result = EmptySummary

C10_Witness ==
  /\ last.op = "get_summary"
  /\ last.name \in DOMAIN seen
  /\ last.result.count >= 2
  /\ last.result.min < last.result.max
  /\ last.result.avg.den > 1

\* the sum of the amounts passed to increment for the name since the last
\* reset
SumOfAmounts(name) == IF name \in DOMAIN counted THEN counted[name].total ELSE 0

\* C11: get_counter(name) returns the sum of the amounts, of any sign, passed
\* to increment for that name since the last reset, and 0 for a name never
\* incremented; every counter holds the sum of its own increments only, so
\* incrementing one name leaves the other counters as they were.
C11_CounterIsSumOfIncrements ==
  /\ \A name \in MetricNames : get_counter(_counters, name) = SumOfAmounts(name)
  /\ DOMAIN _counters = DOMAIN counted
  /\ last.op = "get_counter" => last.result = SumOfAmounts(last.name)

C11_Witness ==
  /\ last.op = "get_counter"
  /\ last.name \in DOMAIN counted
  /\ counted[last.name].n >= 2
  /\ last.result = 1
  /\ \E other \in MetricNames : other \notin DOMAIN counted

\* ------------------------------------------------------------------------
\* Claims about get_all, checked under SpecSnapshot
\* ------------------------------------------------------------------------
\* the thread is inside get_all, waiting in get_summary for the lock that its
\* own get_all holds: no step of any thread can release it
StuckInGetAll(t) ==
  /\ pc[t] = "get_summary"
  /\ frame[t].caller = "get_all"
  /\ metrics_lock = t

\* C12: a get_all() call in any state of the collector, also one with
\* recorded values, comes to an end, and what it returns holds the summary of
\* every series and the value of every counter, as get_summary and
\* get_counter return them.
C12_GetAllReturnsSnapshot ==
  /\ \A t \in Threads : ~StuckInGetAll(t)
  /\ last.op = "get_all" =>
       last.result = [ metrics  |-> [k \in DOMAIN _metrics |-> get_summary(_metrics, k)],
                       counters |-> [k \in DOMAIN _counters |-> get_counter(_counters, k)] ]

\* ------------------------------------------------------------------------
\* Claims about the metrics of the lifecycle calls, checked under
\* SpecLifecycle
\* ------------------------------------------------------------------------
\* the values the last call recorded in the series of script `name`, key k
RecordedIn(name, k) ==
  SelectSeq(last.recorded, LAMBDA r : r[1] = <<name, k>>)

\* C13: script_completed(name, metrics) appends each numeric value of
\* metrics once to the series "{name}.{key}" and nothing for an entry that
\* is not a number, touches no other series and no counter, and the event it
\* emits carries the entries of metrics in its data.
C13_CompletedRecordsNumericMetrics ==
  last.op = "script_completed" =>
    LET metrics == last.result
        name == last.name
    IN /\ \A k \in DOMAIN metrics :
            IF metrics[k].kind = "num"
            THEN RecordedIn(name, k) = << <<<<name, k>>, metrics[k].n>> >>
            ELSE RecordedIn(name, k) = <<>>
       /\ \A i \in DOMAIN last.recorded :
            \E k \in DOMAIN metrics : last.recorded[i][1] = <<name, k>>
       /\ last.incremented = <<>>
       /\ \E i \in DOMAIN last.events :
            /\ last.events[i].event_type = "script_completed"
            /\ \A k \in DOMAIN metrics : last.events[i].data[k] = metrics[k]

ErrorsTotal == get_counter(_counters, <<"errors", "total">>)

ErrorsOf(name) == get_counter(_counters, <<"errors", name>>)

\* C14: a script_failed(name, error) call raises errors.total by exactly 1
\* and errors.{name} by exactly 1, whatever the name.
C14_FailureCountsOnce ==
  [][ (ops' = ops + 1 /\ last'.op = "script_failed") =>
        /\ ErrorsTotal' = ErrorsTotal + 1
        /\ get_counter(_counters', <<"errors", last'.name>>)
             = ErrorsOf(last'.name) + 1 ]_vars

\* ------------------------------------------------------------------------
\* Claims about EventLogger, checked under SpecLogger
\* ------------------------------------------------------------------------
\* the day a get_events call asks for
AskedDay(args) == Day(IF args.date # NoTime THEN args.date ELSE last.at)

\* the records written on the asked day that pass the filters supplied
Matching(args) ==
  IF AskedDay(args) \notin DOMAIN logged THEN <<>>
  ELSE SelectSeq(logged[AskedDay(args)], LAMBDA r :
         /\ args.event_type.given => r.type = args.event_type.value
         /\ args.source.given => r.source = args.source.value)

\* C15: get_events(date, event_type, source) returns nothing for a day
\* without a log file, and otherwise the records written on that day whose
\* type is the event_type supplied and whose source is the source supplied,
\* whatever value is supplied, in the order they were logged.
C15_GetEventsFilters ==
  last.op = "get_events" => last.result = Matching(last.name)

\* the records of today's file, read back without a filter
ReadBack(files) == get_events(files, NoTime, NoArg, NoArg, now)

\* datetime.fromisoformat of the text isoformat writes
fromisoformat(text) ==
  LET i == CHOOSE j \in DOMAIN text : text[j] = "T"
  IN ParseInt(SubSeq(text, 1, i - 1)) * SecondsPerDay
       + ParseNat(SubSeq(text, i + 1, Len(text)))

\* the log call just made added one record, which reads back with the
\* type, source, message, level and timestamp of the event logged
OneRecordAdded ==
  LET before == ReadBack(log_files)
      after == ReadBack(log_files')
      event == last'.result
  IN /\ Len(after) = Len(before) + 1
     /\ SubSeq(after, 1, Len(before)) = before
     /\ LET rec == after[Len(after)]
        IN /\ rec.type = event.event_type
           /\ rec.source = event.source
           /\ rec.message = event.message
           /\ rec.level = event.level
           /\ fromisoformat(rec.timestamp) = event.timestamp

LogCalled == ops' = ops + 1 /\ last'.op = "log"

\* C16: every log call adds exactly one record, and get_events reads it back
\* with the type, source, message, level and timestamp of the Event.
C16_LogRoundTrips == [][LogCalled => OneRecordAdded]_vars

\* C16 as the code has it: a log call that returns adds exactly one record,
\* which reads back with the fields of the Event; a log call that raises
\* (the append fails, or the data cannot be encoded) adds none.
C16_LogRoundTripsUnlessRaised ==
  [][ LogCalled =>
        IF last'.raised = NoError THEN OneRecordAdded
        ELSE ReadBack(log_files') = ReadBack(log_files) ]_vars

C16_Witness ==
  /\ last.op = "log"
  /\ last.raised = NoError
  /\ last.result.message = Quoted
  /\ Len(ReadBack(log_files)) >= 2
  /\ ReadBack(log_files)[Len(ReadBack(log_files))].message = Quoted

\* ------------------------------------------------------------------------
\* Claims about durations, checked under SpecDuration
\* ------------------------------------------------------------------------
\* the number a duration text shows, its decimal point dropped, and how many
\* decimals it has
Shown(text) ==
  ParseNat(SelectSeq(SubSeq(text, 1, Len(text) - 1), LAMBDA ch : ch # "."))

Decimals(text) ==
  LET dot == CHOOSE i \in DOMAIN text : text[i] = "." IN Len(text) - 1 - dot

\* the text reports elapsed seconds: below 60 in seconds, from 60 and below
\* 3600 as elapsed/60 in minutes, from 3600 as elapsed/3600 in hours, to the
\* decimals printed
ReportsElapsed(text, elapsed) ==
  LET unit == text[Len(text)]
  IN IF elapsed < 60
     THEN unit = "s" /\ Decimals(text) = 2 /\ Shown(text) = elapsed * 100
     ELSE IF elapsed < 3600
     THEN unit = "m" /\ Decimals(text) = 1 /\ Abs(Shown(text) * 6 - elapsed) <= 3
     ELSE unit = "h" /\ Decimals(text) = 1 /\ Abs(Shown(text) * 360 - elapsed) <= 180

\* a terminal call of the hub for a name that is in its map
HubUnitEnds ==
  /\ ops' = ops + 1
  /\ last'.op \in TerminalOps
  /\ last'.name \in DOMAIN MapOf(last'.op)

\* a terminal call of the observer after its script_started
ObserverUnitEnds ==
  /\ ops' = ops + 1
  /\ last'.op \in {"observer_completed", "observer_failed"}
  /\ start_time # NoTime

\* C17: the duration reported when a started unit of work is completed or
\* failed is in seconds below 60 s elapsed, in minutes (elapsed/60) from 60 s
\* and below 3600 s, in hours (elapsed/3600) from 3600 s.
C17_DurationUnits ==
  [][ /\ HubUnitEnds =>
          ReportsElapsed(last'.events[1].data["duration"].s,
                         now - MapOf(last'.op)[last'.name])
      /\ ObserverUnitEnds =>
          ReportsElapsed(last'.sends[1].fields["Duration"], now - start_time)
    ]_vars

C17_Witness ==
  /\ last.op \in TerminalOps
  /\ last.events[1].data["duration"].s = <<"1", ".", "0", "h">>
  /\ now = SecondsPerHour

\* ------------------------------------------------------------------------
\* Claims about SlackNotifier.send, checked under SpecNotifier
\* ------------------------------------------------------------------------
\* the last send printed the diagnostic of a failed request
DiagnosticPrinted ==
  \E i \in DOMAIN last.console : last.console[i].tag = "slack_failed"

\* C18: send raises nothing whatever the transport does, makes at most one
\* request, returns true only if that request was made and answered with
\* success, and returns false after printing a diagnostic when the request
\* fails, times out or is answered with an error status.
C18_SendReportsTransportFailure ==
  last.op = "send" =>
    /\ last.raised = NoError
    /\ last.requests <= 1
    /\ Len(last.results) = 1
    /\ last.results[1] => (last.requests = 1 /\ last.result = "ok")
    /\ (last.requests = 1 /\ last.result \in {"http500", "urlerror", "timeout"}) =>
         (~last.results[1] /\ DiagnosticPrinted)
    /\ ~_is_configured => last.requests = 0

C18_Witness ==
  /\ last.op = "send"
  /\ last.requests = 1
  /\ last.result = "timeout"
  /\ last.results = <<FALSE>>
  /\ DiagnosticPrinted

\* ------------------------------------------------------------------------
\* Claims about the singleton, checked under SpecSingleton
\* ------------------------------------------------------------------------
IsPrefix(s, t) == Len(s) <= Len(t) /\ SubSeq(t, 1, Len(s)) = s

\* the threads whose accessor has returned hold one and the same object
SameInstance ==
  \A t \in Threads, u \in Threads :
    (pc[t] = "ready" /\ pc[u] = "ready") => frame[t].self = frame[u].self

\* once an accessor has returned, a step keeps the subscribers registered,
\* the values recorded and the active entries written
NothingDiscarded ==
  (\E t \in Threads : pc[t] = "ready") =>
    /\ IsPrefix(subscribers, subscribers')
    /\ \A k \in DOMAIN _metrics :
         k \in DOMAIN _metrics' /\ IsPrefix(_metrics[k], _metrics'[k])
    /\ \A n \in DOMAIN _active_scripts :
         n \in DOMAIN _active_scripts' /\ _active_scripts'[n] = _active_scripts[n]

\* C19: however the first accesses of several threads interleave, all get
\* the same hub and it is initialized once: nothing registered, recorded or
\* written after an accessor has returned is thrown away by another
\* accessor's construction.
C19_SingletonInitializedOnce == [](SameInstance) /\ [][NothingDiscarded]_vars

\* ------------------------------------------------------------------------
\* Claims about the order of the sinks, checked under Spec
\* ------------------------------------------------------------------------
\* the sinks enabled for the last call, in the order of emit
EnabledSinks ==
  (IF console_enabled THEN <<"console">> ELSE <<>>)
    \o (IF file_enabled THEN <<"file">> ELSE <<>>)
    \o (IF last.notify_slack /\ slack_enabled THEN <<"webhook">> ELSE <<>>)
    \o (IF subscribers # <<>> THEN <<"subscribers">> ELSE <<>>)

\* C20: one emit serves console, file, webhook and subscribers in this order,
\* each only if enabled for the call, and all have run to completion when
\* emit returns; it appends exactly one record to the log with the file sink
\* enabled and none with it disabled.  Stated for the calls whose file append
\* does not fail.
C20_SinksServedInOrder ==
  (last.op \in {"emit", "learning", "progress"} /\ last.fileOk) =>
    /\ last.served = EnabledSinks
    /\ last.completed = EnabledSinks
    /\ last.ret = LastEvent
    /\ Len(last.appended) = (IF file_enabled THEN 1 ELSE 0)

\* ------------------------------------------------------------------------
\* Claims about a failed file append, checked under SpecAppend
\* ------------------------------------------------------------------------
\* the call just made ran one emit whose file append failed
AppendFailed ==
  /\ ops' = ops + 1
  /\ last'.op \in {"emit", "directive_started", "script_started"} \cup TerminalOps
  /\ ~last'.fileOk

\* what a terminal call has done to the hub before it emits
TerminalEffect ==
  /\ last'.op \in {"directive_completed", "directive_failed"} =>
       _active_directives' = PopRest(_active_directives, last'.name)
  /\ last'.op \in {"script_completed", "script_failed"} =>
       _active_scripts' = PopRest(_active_scripts, last'.name)
  /\ last'.op = "script_failed" =>
       /\ get_counter(_counters', <<"errors", "total">>)
            > get_counter(_counters, <<"errors", "total">>)
       /\ get_counter(_counters', <<"errors", last'.name>>)
            > get_counter(_counters, <<"errors", last'.name>>)

\* C21: when the file append fails during an emit, the failure propagates
\* to the caller, neither the webhook nor any subscriber is invoked for the
\* event, and what the calling convenience method did before the emit (the
\* entry removed from the active map, the error counters incremented) stays.
C21_AppendFailurePropagates ==
  [][ AppendFailed =>
        /\ last'.raised.type = "OSError"
        /\ last'.ret = NoEvent
        /\ Len(last'.events) = 1
        /\ last'.appended = <<>>
        /\ last'.sends = <<>> /\ last'.requests = 0
        /\ last'.invoked = <<>>
        /\ \A i \in DOMAIN last'.served :
             last'.served[i] \notin {"webhook", "subscribers"}
        /\ TerminalEffect ]_vars

C21_Witness ==
  /\ last.op = "script_failed"
  /\ ~last.fileOk
  /\ last.raised.type = "OSError"
  /\ last.events[1].data["duration"].s # Unknown
  /\ last.name \notin DOMAIN _active_scripts
  /\ get_counter(_counters, <<"errors", "total">>) = 1
  /\ slack_enabled

\* ------------------------------------------------------------------------
\* Claims about units of work with the same name, checked under SpecOverlap
\* ------------------------------------------------------------------------
\* both units have ended, they were of the same kind, both were started
\* before either ended, and t ended first
EndedFirst(t, u) ==
  /\ t # u
  /\ pc[t] = "ended" /\ pc[u] = "ended"
  /\ frame[t].caller = frame[u].caller
  /\ frame[t].acc.start_op < frame[u].acc.end_op
  /\ frame[u].acc.start_op < frame[t].acc.end_op
  /\ frame[t].acc.end_op < frame[u].acc.end_op

\* the time of the later of the two starts
LaterStart(t, u) ==
  IF frame[t].acc.start_op < frame[u].acc.start_op
  THEN frame[u].acc.start_at ELSE frame[t].acc.start_at

\* C22: when two units with the same name are in flight at once, the first
\* completion or failure reports the time elapsed since the later start,
\* the second reports "unknown", and neither call raises.
C22_SameNameClobbersStart ==
  \A t \in Threads, u \in Threads :
    EndedFirst(t, u) =>
      /\ ReportsElapsed(frame[t].acc.duration,
                        frame[t].acc.end_at - LaterStart(t, u))
      /\ frame[u].acc.duration = Unknown
      /\ frame[t].acc.raised = NoError
      /\ frame[u].acc.raised = NoError

\* ------------------------------------------------------------------------
\* Claims about the two active maps, checked under SpecAppend
\* ------------------------------------------------------------------------
\* C23: directives and scripts are tracked in independent namespaces: the
\* directive calls leave the active-scripts map unchanged, the script calls
\* leave the active-directives map unchanged, and emit, learning and
\* progress leave both unchanged, also when a directive and a script have
\* the same name.
C23_IndependentNamespaces ==
  [][ /\ last'.op \in {"directive_started", "directive_completed", "directive_failed"} =>
           _active_scripts' = _active_scripts
      /\ last'.op \in {"script_started", "script_completed", "script_failed"} =>
           _active_directives' = _active_directives
      /\ last'.op \in {"emit", "learning", "progress"} =>
           /\ _active_directives' = _active_directives
           /\ _active_scripts' = _active_scripts ]_vars

C23_Witness ==
  /\ last.op = "script_failed"
  /\ last.name = "a"
  /\ "a" \in DOMAIN _active_directives
  /\ "a" \notin DOMAIN _active_scripts

\* ------------------------------------------------------------------------
\* Claims about concurrent calls on a MetricsCollector, checked under
\* SpecCollector
\* ------------------------------------------------------------------------
\* the summary of the record calls completed for the name since the last
\* completed reset
SummaryOfRecords(name) ==
  IF name \in DOMAIN seen
  THEN [ count |-> seen[name].n,
         sum   |-> seen[name].total,
         avg   |-> Quotient(seen[name].total, seen[name].n),
         min   |-> seen[name].lo,
         max   |-> seen[name].hi ]
  ELSE EmptySummary

\* C24: however the record, increment, get_summary, get_counter and reset
\* calls of several threads interleave, they take effect one at a time:
\* whenever no call holds the lock every counter is the sum of the completed
\* increments and every series holds the completed records, and every read
\* returns the value of the completed writes.
C24_CallsTakeEffectOneAtATime ==
  /\ metrics_lock = "free" =>
       \A name \in MetricNames :
         /\ get_counter(_counters, name) = SumOfAmounts(name)
         /\ get_summary(_metrics, name) = SummaryOfRecords(name)
  /\ last.op = "get_counter" => last.result = SumOfAmounts(last.name)
  /\ last.op = "get_summary" => last.result = SummaryOfRecords(last.name)

\* a thread waits at the lock while another is between the read and the
\* write of an increment of the same counter
C24_Witness ==
  \E t \in Threads, u \in Threads :
    /\ pc[t] = "acquire" /\ frame[t].caller = "increment"
    /\ pc[u] = "increment_write" /\ metrics_lock = u
    /\ frame[t].name = frame[u].name
    /\ frame[u].acc[1] = 2

\* ------------------------------------------------------------------------
\* Claims about what the collector keeps, checked under SpecRetention
\* ------------------------------------------------------------------------
\* the series of a name, empty for a name without an entry
SeriesOf(metrics, name) == IF name \in DOMAIN metrics THEN metrics[name] ELSE <<>>

\* a write call has just been made
Wrote(op) == ops' = ops + 1 /\ last'.op = op

\* C25: record appends its value as passed to the end of the series of its
\* name and changes nothing else; increment removes nothing; every step of
\* get_summary, get_counter and get_all leaves the series and the counters
\* as they were, without a new entry; reset empties both, so that every
\* summary is empty and every counter reads 0.
C25_RecordedValuesRetained ==
  [][ /\ Wrote("record") =>
           /\ _metrics' = Put(_metrics, last'.name,
                              Append(SeriesOf(_metrics, last'.name), last'.result))
           /\ _counters' = _counters
      /\ Wrote("increment") =>
           /\ _metrics' = _metrics
           /\ DOMAIN _counters \subseteq DOMAIN _counters'
      /\ Wrote("reset") =>
           \A name \in MetricNames :
             /\ get_summary(_metrics', name) = EmptySummary
             /\ get_counter(_counters', name) = 0
      /\ ops' = ops =>
           /\ _metrics' = _metrics
           /\ _counters' = _counters ]_vars

C25_Witness ==
  /\ _metrics = [k \in {<<"lat">>} |-> <<4, -3>>]
  /\ last.op = "get_summary"
  /\ last.name = <<"a", "rows">>
  /\ last.result = EmptySummary

\* ------------------------------------------------------------------------
\* Claims about a notifier without endpoint, checked under SpecNotifier
\* ------------------------------------------------------------------------
\* the last call was a send on a notifier without webhook endpoint
SendWithoutEndpoint == last.op = "send" /\ ~webhook_url

\* C26: without a webhook endpoint send makes no network request and ends
\* as a successful no-op: it does not return the failure result it returns
\* for a transport error.
C26_UnconfiguredSendSucceeds ==
  SendWithoutEndpoint =>
    /\ last.requests = 0
    /\ last.raised = NoError
    /\ last.results # <<FALSE>>

\* C26 as the code has it: without a webhook endpoint send makes no network
\* request, raises nothing, prints the "not configured - would send"
\* diagnostic and no failure diagnostic, and returns false, the value it
\* also returns for a transport error.
C26_UnconfiguredSendReturnsFalse ==
  SendWithoutEndpoint =>
    /\ last.requests = 0
    /\ last.raised = NoError
    /\ last.results = <<FALSE>>
    /\ last.console = << Line("slack_not_configured", last.sends[1].level, "",
                              last.sends[1].message) >>

C26_Witness ==
  /\ SendWithoutEndpoint
  /\ slack_enabled
  /\ last.results = <<FALSE>>
  /\ last.requests = 0
  /\ last.sends[1].message = LongText

\* ------------------------------------------------------------------------
\* Claims about the decorator observe, checked under SpecDecorator
\* ------------------------------------------------------------------------
\* the titles of the notifications the last call handed to the notifier
Titles == [i \in DOMAIN last.sends |-> last.sends[i].title]

\* C27: every call of a function wrapped with observe produces one started
\* notification before the function runs and exactly one terminal
\* notification after it: completed when the function returns, the wrapper
\* then returning the function's result, or failed when it raises, the same
\* exception then leaving the wrapper; never both.
C27_ObserveOneTerminalNotification ==
  last.op = "observed_call" =>
    /\ Len(Titles) = 2
    /\ Titles[1] = "Script Started"
    /\ IF last.result.kind = "returns"
       THEN /\ Titles[2] = "Script Completed"
            /\ last.served = <<"script_started", "func", "script_completed">>
            /\ last.ret = last.result.value
            /\ last.raised = NoError
       ELSE /\ Titles[2] = "Script Failed"
            /\ last.served = <<"script_started", "func", "script_failed">>
            /\ last.raised = last.result.error

\* ------------------------------------------------------------------------
\* Claims about the with blocks, checked under SpecLifecycle
\* ------------------------------------------------------------------------
CompletedType(kind) ==
  IF kind = "directive" THEN "directive_completed" ELSE "script_completed"

\* the step in which control leaves the body of the block of a kind
LeavesBody(kind) == blocks[kind].pc = "body" /\ blocks'[kind].pc = "exited"

\* C28: each execution of a with block emits exactly one terminal event
\* for its name, completed when the body returns and failed when it raises,
\* never both; when the body returns, the failed call is not made and
\* errors.total is not incremented, even if emitting the completed event
\* raises.
C28_ExactlyOneTerminalEvent ==
  [][ \A kind \in Kinds :
        LeavesBody(kind) =>
          IF blocks'[kind].body = NoError
          THEN /\ blocks'[kind].events = <<StartedType(kind), CompletedType(kind)>>
               /\ blocks'[kind].calls = <<"started", "completed">>
               /\ ErrorsTotal' = ErrorsTotal
          ELSE /\ blocks'[kind].events = <<StartedType(kind), FailedType(kind)>>
               /\ blocks'[kind].calls = <<"started", "failed">> ]_vars

\* the active map of the units of a kind
ActiveOf(kind) == IF kind = "directive" THEN _active_directives ELSE _active_scripts

\* C29: once control has left a with block, whether the body returned,
\* raised or was interrupted, or the started call failed before the body
\* ran, the name of the block is not in the active map of its kind (no
\* other unit of that name is in flight here): no stale in-flight entry.
C29_NoStaleActiveEntry ==
  \A kind \in Kinds :
    blocks[kind].pc = "exited" => blocks[kind].name \notin DOMAIN ActiveOf(kind)

\* ------------------------------------------------------------------------
\* Claims about the day of a log file, checked under SpecMidnight
\* ------------------------------------------------------------------------
\* the day on which the event of a stored record was created
CreatedDay(rec) == Day(fromisoformat(rec.timestamp))

\* the records of every log call so far, up to the file of day d, in the
\* order they were written
RECURSIVE LoggedUpTo(_)
LoggedUpTo(d) ==
  IF d < 0 THEN <<>>
  ELSE LoggedUpTo(d - 1) \o (IF d \in DOMAIN logged THEN logged[d] ELSE <<>>)

\* C30: every record in the log file of day D has a timestamp whose date is
\* D, and get_events(date=D) returns exactly the logged events created on
\* day D, those created just before midnight and written just after it
\* included.
C30_FileDayIsTimestampDay ==
  \A d \in 0..Day(now) :
    LET read == get_events(log_files, d * SecondsPerDay, NoArg, NoArg, now)
    IN /\ \A i \in DOMAIN read : CreatedDay(read[i]) = d
       /\ read = SelectSeq(LoggedUpTo(Day(now)), LAMBDA r : CreatedDay(r) = d)

\* ------------------------------------------------------------------------
\* Claims about the error counter, checked under SpecHelpers
\* ------------------------------------------------------------------------
\* the number of SCRIPT_FAILED events among the events a call emitted
FailedEvents(events) ==
  Len(SelectSeq(events, LAMBDA e : e.event_type = "script_failed"))

\* C31: after any sequence of hub operations, the helpers emit_info,
\* emit_warning and emit_error included, errors.total equals the number
\* of SCRIPT_FAILED events emitted so far. Both are zero initially, so the
\* equality is kept exactly when every call raises errors.total by the
\* number of SCRIPT_FAILED events it emits.
C31_ErrorsTotalCountsFailedEvents ==
  [][ ops' = ops + 1 =>
        ErrorsTotal' = ErrorsTotal + FailedEvents(last'.events) ]_vars

====
